---- MODULE Spec2Model ----
(***************************************************************************)
(* Model of the cloud-observability log forwarder:                         *)
(*   - the AWS send-logs pipeline "Mode A" (transformLogEvents and the     *)
(*     OTLP request builder),                                              *)
(*   - the VPC flow-log format cache (flowLogFormatCache.get / set),       *)
(*   - the VPC flow-log pipeline "Mode B" (Handler.TransformVpcFlowLogs),  *)
(*   - the export loop of handleEvent,                                     *)
(*   - the GCP forwarder (HandleGcsBatch),                                 *)
(*   - the cached format lookup (Handler.getFlowLogFormatCached) and the   *)
(*     export loop of ProcessAndExportVpcFlowLogs.                         *)
(***************************************************************************)
EXTENDS Integers, Sequences, FiniteSets, TLC

VARIABLES
    \* ---- Mode A: transformLogEvents and the consumer loop of handleEvent
    logStream,      \* the logStream argument
    lambdaRegion,   \* the AWS_REGION environment value
    input,          \* the input slice of log events
    idx,            \* index of the next input item (1-based)
    reqBuilder,     \* the current otlpRequestBuilder
    tpc,            \* position of the transformLogEvents goroutine
    chan,           \* the unbuffered output channel: << >> or <<payload>> being offered
    closeCount,     \* how many times close(output) ran
    received,       \* payloads the range loop of handleEvent has received
    cpc,            \* position of the consumer loop ("ranging" / "done")
    \* ---- format cache
    entries,        \* c.entries: log group -> cache entry
    now,            \* the clock read by time.Now / time.Since
    rwlock,         \* c.mu: [readers |-> set of goroutines, writer |-> set with the holder]
    gpc,            \* per goroutine: position inside get / set
    gop,            \* per goroutine: the call it runs and its arguments
    gseen,          \* per goroutine: the local variable entry of get
    gret,           \* per goroutine: result of its last completed call
    glog,           \* per goroutine: lock operations of its current / last call (ghost)
    calls,          \* number of calls started so far
    lastSet,        \* per key: the entry written by the most recent set (ghost)
    delCount,       \* per entry serial: how often delete ran for it (ghost)
    \* ---- Mode B: TransformVpcFlowLogs
    vInput,         \* the input slice of flow-log messages
    vIdx,           \* index of the next input item
    vpc,            \* position of the TransformVpcFlowLogs goroutine
    vChan,          \* the output channel: << >> or <<metrics>> being offered
    vCloseCount,    \* how many times close(output) ran
    vReceived,      \* metrics envelopes received by the consumer
    vCancelled,     \* whether ctx.Done() is closed
    vNeedLookup,    \* VpcFlowLogsSupportedVersion != VpcFlowLogsDefaultVersion in this build
    vLookup,        \* what h.getFlowLogFormat(logGroup) returns
    vFormat,        \* the local variable flowLogsFormat
    vExit,          \* which exit path the transformer took
    vSeenCancel,    \* index of the record before which the cancellation was observed (0: never)
    vTrace,         \* per processed record: its index and whether it was sent (ghost)
    \* ---- handleEvent: the export loop and the aggregate outcome
    hErrs,          \* errs: the errors of the failed exports
    hErr,           \* err: the named error result ("" is nil)
    hResult,        \* r: the named string result
    hOutcomes,      \* per export attempted: the error it returned, "" for nil (ghost)
    \* ---- GCP forwarder: HandleGcsBatch
    gcsInput,       \* the lines the scanner yields
    gcsReadErr,     \* whether scanner.Err() is non-nil after the last line
    gcsIdx,         \* index of the next line
    gcsPc,          \* position of HandleGcsBatch
    batches,        \* batches: service name -> records of the open sub-batch
    exports,        \* the g.Go calls so far: service, records, state, result
    gcsCtxDone,     \* whether the errgroup's context is cancelled
    gcsErr,         \* the errgroup's first error ("" is nil)
    gcsRet,         \* what HandleGcsBatch returned ("" is nil)
    \* ---- Handler.getFlowLogFormatCached over consecutive invocations
    lkPc,           \* position of getFlowLogFormatCached
    lkSeen,         \* the last store and the clock when the cache was asked (ghost)
    lkCalled,       \* whether this call has called the provider API (ghost)
    lkRet,          \* what getFlowLogFormatCached returned
    lkStored,       \* the tuple the provider returned last, and when it was stored (ghost)
    lkRuns,         \* invocations started so far
    \* ---- ProcessAndExportVpcFlowLogs: the export loop and the result
    xPc,            \* position of ProcessAndExportVpcFlowLogs
    xCount,         \* successfulExports
    xErrs,          \* errs
    xOutcomes,      \* per export attempted: the error it returned, "" for nil (ghost)
    \* ---- evaluation of single functions
    pIn,            \* the arguments
    pOut,           \* the result
    pDone           \* whether the function has been applied

modeAVars  == <<logStream, lambdaRegion, input, idx, reqBuilder, tpc, chan,
                closeCount, received, cpc>>
cacheVars  == <<entries, now, rwlock, gpc, gop, gseen, gret, glog, calls, lastSet, delCount>>
modeBVars  == <<vInput, vIdx, vpc, vChan, vCloseCount, vReceived, vCancelled,
                vNeedLookup, vLookup, vFormat, vExit, vSeenCancel, vTrace>>
handleVars == <<hErrs, hErr, hResult, hOutcomes>>
gcsVars    == <<gcsInput, gcsReadErr, gcsIdx, gcsPc, batches, exports, gcsCtxDone, gcsErr,
                gcsRet>>
pureVars   == <<pIn, pOut, pDone>>
lookupVars == <<lkPc, lkSeen, lkCalled, lkRet, lkStored, lkRuns>>
exportVars == <<xPc, xCount, xErrs, xOutcomes>>
vars == <<modeAVars, cacheVars, modeBVars, handleVars, gcsVars, pureVars, lookupVars,
          exportVars>>

----------------------------------------------------------------------------
(* Bounds of the model *)

MaxEvents == 3
MaxCalls  == 3      \* calls of get / set started in one run
MaxTime   == 4      \* ticks of the clock in one run
CacheTTL  == 1      \* c.cacheTTL, in ticks
MaxRecords == 3     \* flow-log records in one input
MaxOps == 3         \* calls of builder methods in one run
MaxItems == 2       \* items of an instancesSet
MaxLines == 3       \* lines of one GCS object
BatchCap == 2       \* records of a sub-batch that make it full (1000 in main.go)

----------------------------------------------------------------------------
(* Strings and the regular expressions of the request builder *)

EmptyStr == ""

\* the i-th character of s
Ch(s, i) == SubSeq(s, i, i)

\* the character classes \d and \w of the regular expressions
DigitChars == {"0", "1", "2", "3", "4", "5", "6", "7", "8", "9"}
WordChars  == DigitChars \cup {"_"} \cup
              {"a", "b", "c", "d", "e", "f", "g", "h", "i", "j", "k", "l", "m",
               "n", "o", "p", "q", "r", "s", "t", "u", "v", "w", "x", "y", "z"} \cup
              {"A", "B", "C", "D", "E", "F", "G", "H", "I", "J", "K", "L", "M",
               "N", "O", "P", "Q", "R", "S", "T", "U", "V", "W", "X", "Y", "Z"}

\* length of the longest prefix of s[from..] whose characters are all in cls
RECURSIVE RunLen(_, _, _)
RunLen(s, from, cls) ==
    IF from > Len(s) \/ Ch(s, from) \notin cls THEN 0
    ELSE 1 + RunLen(s, from + 1, cls)

StartsWith(s, p) == Len(s) >= Len(p) /\ SubSeq(s, 1, Len(p)) = p

\* detectHostIdRegExp = ^(?P<HostId>(i-|ip-)[\w\-]+) : the HostId group, or "" when
\* the expression does not match
DetectHostId(s) ==
    LET plen == IF StartsWith(s, "i-") THEN 2
                ELSE IF StartsWith(s, "ip-") THEN 3
                ELSE 0
        run  == RunLen(s, plen + 1, WordChars \cup {"-"})
    IN  IF plen > 0 /\ run >= 1 THEN SubSeq(s, 1, plen + run) ELSE EmptyStr

\* detectRegionRegExp = (?P<Region>\w{2}-\w+-\d+), unanchored, leftmost match:
\* the match starting at position p, or ""
RegionAt(s, p) ==
    IF p + 2 <= Len(s) /\ Ch(s, p) \in WordChars /\ Ch(s, p + 1) \in WordChars
       /\ Ch(s, p + 2) = "-"
    THEN LET w == RunLen(s, p + 3, WordChars)
             q == p + 3 + w            \* position of the second "-"
             d == RunLen(s, q + 1, DigitChars)
         IN  IF w >= 1 /\ q <= Len(s) /\ Ch(s, q) = "-" /\ d >= 1
             THEN SubSeq(s, p, q + d)
             ELSE EmptyStr
    ELSE EmptyStr

RECURSIVE RegionFrom(_, _)
RegionFrom(s, p) ==
    IF p > Len(s) THEN EmptyStr
    ELSE IF RegionAt(s, p) # EmptyStr THEN RegionAt(s, p)
    ELSE RegionFrom(s, p + 1)

DetectRegion(s) == RegionFrom(s, 1)

\* detectInstanceNameAndRegion =
\*   (?P<Fargate>(fargate-))?(?P<Instance>(i-|ip-)[\w\-]+)\.(?P<Region>[\w\-]+)\.
\* FindStringSubmatch: the groups of the leftmost match, or matched = FALSE (nil)
FargatePrefix == "fargate-"
NoMatch == [matched |-> FALSE, fargate |-> EmptyStr, instance |-> EmptyStr, region |-> EmptyStr]

InstanceAt(s, p, fg) ==
    LET rest == SubSeq(s, p, Len(s))
        plen == IF StartsWith(rest, "i-") THEN 2
                ELSE IF StartsWith(rest, "ip-") THEN 3
                ELSE 0
        run  == RunLen(s, p + plen, WordChars \cup {"-"})
        dot1 == p + plen + run                       \* position of the first "."
        rrun == RunLen(s, dot1 + 1, WordChars \cup {"-"})
        dot2 == dot1 + 1 + rrun                      \* position of the second "."
    IN  IF plen > 0 /\ run >= 1 /\ dot1 <= Len(s) /\ Ch(s, dot1) = "."
           /\ rrun >= 1 /\ dot2 <= Len(s) /\ Ch(s, dot2) = "."
        THEN [matched |-> TRUE, fargate |-> fg,
              instance |-> SubSeq(s, p, dot1 - 1),
              region |-> SubSeq(s, dot1 + 1, dot2 - 1)]
        ELSE NoMatch

\* a when it matched, else b
PreferMatch(a, b) == IF a.matched THEN a ELSE b

InstanceNameAt(s, p) ==
    IF StartsWith(SubSeq(s, p, Len(s)), FargatePrefix)
    THEN PreferMatch(InstanceAt(s, p + Len(FargatePrefix), FargatePrefix),
                     InstanceAt(s, p, EmptyStr))
    ELSE InstanceAt(s, p, EmptyStr)

RECURSIVE InstanceNameFrom(_, _)
LeftmostFrom(here, s, p) == IF here.matched THEN here ELSE InstanceNameFrom(s, p + 1)

InstanceNameFrom(s, p) ==
    IF p > Len(s) THEN NoMatch ELSE LeftmostFrom(InstanceNameAt(s, p), s, p)

DetectInstanceNameAndRegion(s) == InstanceNameFrom(s, 1)

----------------------------------------------------------------------------
(* The OTLP request builder (otlpRequestBuilder) *)

\* pdata attribute maps: functions from the keys present to their values
EmptyMap == [k \in {} |-> EmptyStr]
Has(m, k)           == k \in DOMAIN m
UpsertString(m, k, v) == [x \in (DOMAIN m) \cup {k} |-> IF x = k THEN v ELSE m[x]]
InsertString(m, k, v) == IF Has(m, k) THEN m ELSE UpsertString(m, k, v)
Delete(m, k)        == [x \in (DOMAIN m) \ {k} |-> m[x]]

\* semconv values
CloudPlatformAWSEC2 == "aws_ec2"
CloudProviderAWS    == "aws"

NewOtlpRequestBuilder ==
    [ attrs        |-> EmptyMap,     \* resLogs.Resource().Attributes()
      nResources   |-> 1,            \* logs.ResourceLogs().Len()
      nScopes      |-> 0,            \* instrLogsSlice.Len()
      records      |-> << >>,        \* instrLogs.Logs()
      hostId       |-> EmptyStr,
      parsedRegion |-> EmptyStr,
      parsedHostId |-> EmptyStr ]

HasHostId(rb)         == rb.hostId # EmptyStr
MatchHostId(rb, h)    == rb.hostId = h

\* SetHostId that leaves cloud.platform alone
SetHostIdOnly(rb, h) ==
    [rb EXCEPT !.hostId = h,
               !.attrs  = IF h # EmptyStr THEN UpsertString(@, "host.id", h)
                          ELSE Delete(@, "host.id")]

SetHostId(rb, h) ==
    [rb EXCEPT !.hostId = h,
               !.attrs  = IF h # EmptyStr
                          THEN UpsertString(UpsertString(@, "host.id", h),
                                            "cloud.platform", CloudPlatformAWSEC2)
                          ELSE Delete(Delete(@, "host.id"), "cloud.platform")]

SetCloudAccount(rb, account) ==
    [rb EXCEPT !.attrs = UpsertString(@, "cloud.account.id", account)]

SetLogGroup(rb, logGroup) ==
    [rb EXCEPT !.attrs = UpsertString(@, "aws.log.group.names", logGroup)]

SetLogStream(rb, s) ==
    LET h   == DetectHostId(s)
        r   == DetectRegion(s)
        rb1 == [rb EXCEPT !.attrs = InsertString(@, "aws.log.stream.names", s),
                          !.parsedHostId = IF h # EmptyStr THEN h ELSE @,
                          !.parsedRegion = IF r # EmptyStr THEN r ELSE @]
    IN  IF rb1.parsedHostId # EmptyStr /\ ~HasHostId(rb1)
        THEN SetHostId(rb1, s)
        ELSE rb1

HasContainerName(rb) ==
    /\ Has(rb.attrs, "k8s.pod.uid")
    /\ Has(rb.attrs, "k8s.namespace.name")
    /\ Has(rb.attrs, "sw.k8s.cluster.uid")
    /\ Has(rb.attrs, "k8s.container.name")

MatchContainerName(rb, clusterUid, namespaceName, podName, containerName) ==
    IF ~Has(rb.attrs, "k8s.pod.uid") \/ ~Has(rb.attrs, "k8s.namespace.name")
       \/ ~Has(rb.attrs, "sw.k8s.cluster.uid") \/ ~Has(rb.attrs, "k8s.container.name")
    THEN FALSE
    ELSE /\ rb.attrs["k8s.container.name"] = containerName
         /\ rb.attrs["k8s.pod.uid"] = podName
         /\ rb.attrs["k8s.namespace.name"] = namespaceName
         /\ rb.attrs["sw.k8s.cluster.uid"] = clusterUid

\* the attribute key a pod label / annotation key is stored under
LabelAttr(k)      == "k8s.pod.labels." \o k
AnnotationAttr(k) == "k8s.pod.annotations." \o k

RECURSIVE UpsertAll(_, _, _, _)
UpsertAll(m, src, keys, which) ==
    IF keys = {} THEN m
    ELSE LET k == CHOOSE x \in keys : TRUE
         IN  UpsertAll(UpsertString(m, IF which = "labels" THEN LabelAttr(k)
                                       ELSE AnnotationAttr(k), src[k]),
                       src, keys \ {k}, which)

AddLogEntry(rb, itemId, timestamp, message, region, attributes) ==
    LET a0 == IF region # EmptyStr THEN UpsertString(EmptyMap, "cloud.region", region)
              ELSE IF rb.parsedRegion # EmptyStr
                   THEN UpsertString(EmptyMap, "cloud.region", rb.parsedRegion)
                   ELSE EmptyMap
        a1 == [k \in (DOMAIN a0) \cup (DOMAIN attributes) |->
                  IF k \in DOMAIN attributes THEN attributes[k] ELSE a0[k]]
        logEntry == [name |-> itemId, timestamp |-> timestamp, body |-> message, attrs |-> a1]
    IN  [rb EXCEPT !.nScopes = IF @ = 0 THEN 1 ELSE @,
                   !.records = Append(@, logEntry)]

\* GetLogs stamps cloud.provider on the builder's resource and returns the payload
StampProvider(rb) ==
    [rb EXCEPT !.attrs = InsertString(@, "cloud.provider", CloudProviderAWS)]

GetLogs(rb) ==
    LET b == StampProvider(rb)
    IN  [attrs |-> b.attrs, nResources |-> b.nResources, nScopes |-> b.nScopes,
         records |-> b.records]

----------------------------------------------------------------------------
(* Log messages, parseMessage and the classified events *)

\* instance ids and names used by the model's inputs
IdA        == "i-12345678"
IdB        == "i-87654321"
IdS        == "2022/02/06/abcd"              \* an id without i- / ip- prefix
RegionEU   == "eu-west-1"
StreamPlain  == "2022/02/06/abcd"
StreamHost   == "i-12345678"
StreamRegion == "app-us-east-2-log"
FargateHost  == "fargate-ip-192-168-149-22.us-east-2.compute.internal"
Ec2Host      == "ip-192-168-1-7.us-east-2.compute.internal"

\* A message: text is the raw string; obj says whether it unmarshals into a JSON
\* object; paths are the JSON paths present in it; mistyped are the paths whose
\* value has a JSON type that the struct field declared for the path does not
\* take; the other fields are the values the typed structs read from it.
BaseKube == [pod_name |-> "", namespace_name |-> "", pod_id |-> "", container_name |-> "",
             docker_id |-> "", container_image |-> "", host |-> EmptyStr,
             labels |-> EmptyMap, annotations |-> EmptyMap]
BaseMsg == [text |-> "", obj |-> TRUE, paths |-> {}, mistyped |-> {}, eventSource |-> "",
            awsRegion |-> EmptyStr, reqItems |-> << >>, respItems |-> << >>,
            ec2_instance_id |-> EmptyStr, az |-> EmptyStr,
            InstanceId |-> EmptyStr, NodeName |-> EmptyStr,
            kubernetes |-> BaseKube, clusterUid |-> "", logType |-> "",
            manifestVersion |-> "", log |-> ""]

PlainMsg == [BaseMsg EXCEPT !.text = "Hello, World", !.obj = FALSE]

Ec2Msg(name, req, resp) ==
    [BaseMsg EXCEPT !.text = name, !.eventSource = "ec2.amazonaws.com",
                    !.paths = {"eventSource", "eventVersion",
                               "requestParameters.instancesSet",
                               "responseElements.instancesSet"},
                    !.awsRegion = RegionEU, !.reqItems = req, !.respItems = resp]

GenericMsg ==
    [BaseMsg EXCEPT !.text = "trail", !.eventSource = "s3.amazonaws.com",
                    !.paths = {"eventSource", "eventVersion"}, !.awsRegion = RegionEU]

InsightsMsg(name, id) ==
    [BaseMsg EXCEPT !.text = name, !.paths = {"ec2_instance_id", "az"},
                    !.ec2_instance_id = id, !.az = RegionEU]

AppLogMsg(name, host, pod, podId, container) ==
    [BaseMsg EXCEPT !.text = name,
                    !.paths = {"kubernetes.host", "kubernetes.namespace_name", "log"},
                    !.kubernetes = [BaseKube EXCEPT !.pod_name = pod, !.pod_id = podId,
                                       !.namespace_name = "ns", !.container_name = container,
                                       !.docker_id = podId, !.container_image = "php",
                                       !.host = host,
                                       !.labels = [k \in {"app"} |-> "php-app"],
                                       !.annotations = [k \in {"Logging"} |-> "on"]],
                    !.clusterUid = "cluster", !.logType = "container",
                    !.log = "AH00558"]

PerfMsg(name, id) ==
    [BaseMsg EXCEPT !.text = name, !.paths = {"InstanceId", "AutoScalingGroupName", "NodeName"},
                    !.InstanceId = id, !.NodeName = Ec2Host]

\* every kind of message parseMessage tells apart
AllMessages ==
    { PlainMsg,
      Ec2Msg("ec2-a", <<IdA>>, << >>),
      Ec2Msg("ec2-b", << >>, <<IdB>>),
      Ec2Msg("ec2-s", <<IdS>>, << >>),
      GenericMsg,
      InsightsMsg("ci-none", EmptyStr),
      AppLogMsg("fg-1", FargateHost, "pod-1", "uid-1", "php-app"),
      AppLogMsg("fg-2", FargateHost, "pod-2", "uid-2", "php-app"),
      AppLogMsg("fg-x", FargateHost, "pod-x", "pod-x", "php-app"),
      AppLogMsg("app-ec2", Ec2Host, "pod-1", "uid-1", "php-app"),
      PerfMsg("perf-b", IdB) }

\* the messages of the pipeline's inputs
Messages ==
    {m \in AllMessages : m.text \in {"Hello, World", "ec2-a", "ec2-b", "ec2-s", "trail",
                                     "fg-1", "fg-2", "fg-x"}}

StreamNames == {StreamPlain, StreamHost, StreamRegion}

\* a value test that only tests the presence of the path
testJsonPathPresence(m, path, value) == path \in m.paths

\* testJsonPath(jsonEvent, path [, value])
testJsonPath(m, path) == path \in m.paths
testJsonPathValue(m, path, value) ==
    /\ path \in m.paths
    /\ (value # "" => (path = "eventSource" /\ m.eventSource = value))

\* the JSON paths the fields of each struct are read from (main.go 425-480)
StructPaths(kind) ==
    CASE kind = "ec2CloudTrailEvent" ->
            {"eventSource", "eventName", "awsRegion", "requestParameters.instancesSet",
             "responseElements.instancesSet"}
      [] kind = "cloudTrailEvent" -> {"eventSource", "eventName", "awsRegion"}
      [] kind = "cloudInsightsLog" -> {"ec2_instance_id", "az"}
      [] kind = "cloudInsightsAppLog" ->
            {"kubernetes.host", "kubernetes.namespace_name", "sw.k8s.cluster.uid",
             "sw.k8s.log.type", "sw.k8s.agent.manifest.version", "stream", "logtag", "log"}
      [] kind = "cloudInsightsPerformance" -> {"InstanceId", "NodeName"}

\* json.Unmarshal([]byte(message), &struct) returns nil: no value under a path
\* of the struct has a type the field does not take
Decodes(m, kind) == StructPaths(kind) \cap m.mistyped = {}

fargateEvent == "fargate"
ec2Event     == "ec2"

\* a parse that keeps the matched instance under the fargate prefix too
AppLogParsedKeepInstance(matches) ==
    [parsedInstanceId |->
        IF matches.matched /\ matches.instance # EmptyStr
        THEN matches.instance ELSE EmptyStr,
     parsedRegion |->
        IF matches.matched /\ matches.region # EmptyStr
        THEN matches.region ELSE EmptyStr]

\* cloudInsightsAppLog.parse: matches are the submatches of kubernetes.host
AppLogParsed(matches) ==
    [parsedInstanceId |->
        IF matches.matched /\ matches.fargate = EmptyStr /\ matches.instance # EmptyStr
        THEN matches.instance ELSE EmptyStr,
     parsedRegion |->
        IF matches.matched /\ matches.region # EmptyStr
        THEN matches.region ELSE EmptyStr]

AppLogParse(m) == AppLogParsed(DetectInstanceNameAndRegion(m.kubernetes.host))

\* cloudInsightsPerformance.parse: matches are the submatches of NodeName
PerfParsed(matches) ==
    [parsedInstanceId |-> EmptyStr,
     parsedRegion |-> IF matches.matched THEN matches.region ELSE EmptyStr]

PerfParse(m) == PerfParsed(DetectInstanceNameAndRegion(m.NodeName))

NoParse == [parsedInstanceId |-> EmptyStr, parsedRegion |-> EmptyStr]

\* parseMessage: ok, and the event as (kind of struct, message, parsed fields)
parseMessage(m) ==
    IF ~m.obj THEN [ok |-> FALSE, kind |-> "Unknown", msg |-> m, parsed |-> NoParse]
    ELSE IF testJsonPathValue(m, "eventSource", "ec2.amazonaws.com")
            /\ (testJsonPath(m, "requestParameters.instancesSet")
                \/ testJsonPath(m, "responseElements.instancesSet"))
            /\ Decodes(m, "ec2CloudTrailEvent")
    THEN [ok |-> TRUE, kind |-> "ec2CloudTrailEvent", msg |-> m, parsed |-> NoParse]
    ELSE IF testJsonPath(m, "eventVersion") /\ Decodes(m, "cloudTrailEvent")
    THEN [ok |-> TRUE, kind |-> "cloudTrailEvent", msg |-> m, parsed |-> NoParse]
    ELSE IF testJsonPath(m, "ec2_instance_id") /\ Decodes(m, "cloudInsightsLog")
    THEN [ok |-> TRUE, kind |-> "cloudInsightsLog", msg |-> m, parsed |-> NoParse]
    ELSE IF testJsonPath(m, "kubernetes.host") /\ testJsonPath(m, "kubernetes.namespace_name")
            /\ Decodes(m, "cloudInsightsAppLog")
    THEN [ok |-> TRUE, kind |-> "cloudInsightsAppLog", msg |-> m, parsed |-> AppLogParse(m)]
    ELSE IF testJsonPath(m, "InstanceId") /\ testJsonPath(m, "AutoScalingGroupName")
            /\ Decodes(m, "cloudInsightsPerformance")
    THEN [ok |-> TRUE, kind |-> "cloudInsightsPerformance", msg |-> m, parsed |-> PerfParse(m)]
    ELSE [ok |-> FALSE, kind |-> "Unknown", msg |-> m, parsed |-> NoParse]

\* extractEC2InstanceId: the first request item, else the first response item
extractEC2InstanceId(m) ==
    IF Len(m.reqItems) > 0 /\ m.reqItems[1] # EmptyStr
    THEN [id |-> m.reqItems[1], err |-> FALSE]
    ELSE IF Len(m.respItems) > 0 /\ m.respItems[1] # EmptyStr
    THEN [id |-> m.respItems[1], err |-> FALSE]
    ELSE [id |-> EmptyStr, err |-> TRUE]

getInstanceId(e) ==
    CASE e.kind = "ec2CloudTrailEvent"       -> extractEC2InstanceId(e.msg)
      [] e.kind = "cloudTrailEvent"          -> [id |-> EmptyStr, err |-> TRUE]
      [] e.kind = "cloudInsightsLog"         -> [id |-> e.msg.ec2_instance_id, err |-> FALSE]
      [] e.kind = "cloudInsightsAppLog"      ->
            [id |-> e.parsed.parsedInstanceId, err |-> e.parsed.parsedInstanceId = EmptyStr]
      [] e.kind = "cloudInsightsPerformance" -> [id |-> e.msg.InstanceId, err |-> FALSE]

getRegion(e) ==
    CASE e.kind = "ec2CloudTrailEvent"       -> e.msg.awsRegion
      [] e.kind = "cloudTrailEvent"          -> e.msg.awsRegion
      [] e.kind = "cloudInsightsLog"         -> e.msg.az
      [] e.kind = "cloudInsightsAppLog"      -> e.parsed.parsedRegion
      [] e.kind = "cloudInsightsPerformance" -> e.parsed.parsedRegion

\* cloudInsightsAppLog.getEventType: fargate iff the Fargate group matched
AppLogEventType(matches) ==
    IF matches.matched /\ matches.fargate # EmptyStr THEN fargateEvent ELSE ec2Event

getEventType(e) ==
    IF e.kind = "cloudInsightsAppLog"
    THEN AppLogEventType(DetectInstanceNameAndRegion(e.msg.kubernetes.host))
    ELSE ec2Event

----------------------------------------------------------------------------
(* Mode A: transformLogEvents *)

timestampMultiplier == 1000000
Account       == "123456789012"
LogGroup      == "group"
lambdaVersion == "v1"

\* NewOtlpRequestBuilder().SetCloudAccount(account).SetLogGroup(logGroup).SetLogStream(logStream)
FreshBuilder(stream) ==
    SetLogStream(SetLogGroup(SetCloudAccount(NewOtlpRequestBuilder, Account), LogGroup), stream)

setKubernetesInfo(rb, m) ==
    LET k  == m.kubernetes
        a1 == UpsertString(rb.attrs, "k8s.pod.name", k.pod_name)
        a2 == UpsertString(a1, "k8s.namespace.name", k.namespace_name)
        a3 == UpsertString(a2, "k8s.pod.uid", k.pod_id)
        a4 == UpsertString(a3, "k8s.container.name", k.container_name)
        a5 == UpsertString(a4, "container.id", k.docker_id)
        a6 == UpsertString(a5, "k8s.container.image.name", k.container_image)
        a7 == UpsertString(a6, "sw.k8s.cluster.uid", m.clusterUid)
        a8 == UpsertString(a7, "k8s.node.name", k.host)
        a9 == UpsertAll(a8, k.labels, DOMAIN k.labels, "labels")
        b1 == UpsertAll(a9, k.annotations, DOMAIN k.annotations, "annotations")
        b2 == UpsertString(b1, "sw.k8s.agent.manifest.version",
                           IF m.manifestVersion = "" THEN lambdaVersion ELSE m.manifestVersion)
        b3 == UpsertString(b2, "host.name", k.pod_name)
        b4 == UpsertString(b3, "service.name", k.container_name)
    IN  [rb EXCEPT !.attrs = b4]

\* HostStep that re-labels the current builder instead of emitting it
HostStepRelabel(rb, iid, stream) ==
    IF iid.err THEN [out |-> << >>, rb |-> rb]
    ELSE [out |-> << >>, rb |-> SetHostId(rb, iid.id)]

\* HostStep that emits the builder also when it has no host-id yet
HostStepEmitOnFirst(rb, iid, stream) ==
    IF iid.err THEN [out |-> << >>, rb |-> rb]
    ELSE IF ~MatchHostId(rb, iid.id)
         THEN [out |-> <<GetLogs(rb)>>, rb |-> SetHostId(FreshBuilder(stream), iid.id)]
         ELSE [out |-> << >>, rb |-> rb]

\* HostStep that emits the builder and goes on with the same builder
HostStepReuse(rb, iid, stream) ==
    IF iid.err THEN [out |-> << >>, rb |-> rb]
    ELSE IF ~HasHostId(rb) THEN [out |-> << >>, rb |-> SetHostId(rb, iid.id)]
    ELSE IF ~MatchHostId(rb, iid.id)
         THEN [out |-> <<GetLogs(rb)>>, rb |-> SetHostId(rb, iid.id)]
         ELSE [out |-> << >>, rb |-> rb]

\* lines 661-673: the host-id transition of a classified event, iid being what
\* event.getInstanceId() returned
HostStep(rb, iid, stream) ==
    IF iid.err THEN [out |-> << >>, rb |-> rb]
    ELSE IF ~HasHostId(rb) THEN [out |-> << >>, rb |-> SetHostId(rb, iid.id)]
    ELSE IF ~MatchHostId(rb, iid.id)
         THEN [out |-> <<GetLogs(rb)>>, rb |-> SetHostId(FreshBuilder(stream), iid.id)]
         ELSE [out |-> << >>, rb |-> rb]

HostTransition(rb, e, stream) == HostStep(rb, getInstanceId(e), stream)

\* lines 675-693: the container transition of a Fargate app log
FargateTransition(rb, e, stream) ==
    LET m == e.msg
    IN  IF ~HasContainerName(rb) THEN [out |-> << >>, rb |-> setKubernetesInfo(rb, m)]
        ELSE IF ~MatchContainerName(rb, m.clusterUid, m.kubernetes.namespace_name,
                                    m.kubernetes.pod_name, m.kubernetes.container_name)
             THEN [out |-> <<GetLogs(rb)>>, rb |-> setKubernetesInfo(FreshBuilder(stream), m)]
             ELSE [out |-> << >>, rb |-> rb]

\* UnclassifiedStep that emits but keeps the emitted builder's resource
UnclassifiedStepKeepResource(rb, item, stream, lregion) ==
    IF HasHostId(rb) /\ ~MatchHostId(rb, stream)
    THEN [out |-> <<GetLogs(rb)>>,
          rb  |-> AddLogEntry([rb EXCEPT !.records = << >>], item.ID,
                              item.Timestamp * timestampMultiplier, item.Message.text,
                              lregion, EmptyMap)]
    ELSE [out |-> << >>,
          rb  |-> AddLogEntry(rb, item.ID, item.Timestamp * timestampMultiplier,
                              item.Message.text, lregion, EmptyMap)]

\* lines 700-711: an unclassified record
UnclassifiedStep(rb, item, stream, lregion) ==
    IF HasHostId(rb) /\ ~MatchHostId(rb, stream)
    THEN [out |-> <<GetLogs(rb)>>,
          rb  |-> AddLogEntry(FreshBuilder(stream), item.ID,
                              item.Timestamp * timestampMultiplier, item.Message.text,
                              lregion, EmptyMap)]
    ELSE [out |-> << >>,
          rb  |-> AddLogEntry(rb, item.ID, item.Timestamp * timestampMultiplier,
                              item.Message.text, lregion, EmptyMap)]

\* lines 675-697: a Fargate app log after the host-id transition h
FargateItem(h, item, e, stream) ==
    \* f: the container transition
    LET f == FargateTransition(h.rb, e, stream)
    IN  [out |-> h.out \o f.out,
         rb  |-> AddLogEntry(f.rb, item.ID, item.Timestamp * timestampMultiplier,
                             e.msg.log, getRegion(e),
                             [k \in {"sw.k8s.log.type"} |-> e.msg.logType])]

\* lines 655-698: a classified event e
ClassifiedStep(rb, item, e, h, stream) ==
    IF getEventType(e) = fargateEvent
    THEN FargateItem(h, item, e, stream)
    ELSE [out |-> h.out,
          rb  |-> AddLogEntry(h.rb, item.ID, item.Timestamp * timestampMultiplier,
                              item.Message.text, getRegion(e), EmptyMap)]

\* the event parseMessage returned decides the branch
TransformParsed(rb, item, e, stream, lregion) ==
    IF e.ok THEN ClassifiedStep(rb, item, e, HostTransition(rb, e, stream), stream)
    ELSE UnclassifiedStep(rb, item, stream, lregion)

\* the body of the for loop of transformLogEvents for one item: the payloads it
\* sends and the builder it leaves
TransformItem(rb, item, stream, lregion) ==
    TransformParsed(rb, item, parseMessage(item.Message), stream, lregion)

\* the inputs: every sequence of at most MaxEvents messages
RECURSIVE SeqsUpTo(_, _)
SeqsUpTo(S, n) ==
    IF n = 0 THEN {<< >>}
    ELSE LET shorter == SeqsUpTo(S, n - 1)
         IN  shorter \cup {Append(s, x) : s \in {q \in shorter : Len(q) = n - 1}, x \in S}

MakeItems(msgs) == [i \in 1..Len(msgs) |-> [ID |-> i, Timestamp |-> i, Message |-> msgs[i]]]

\* the state when transformLogEvents starts on input items of logStream stream
ModeAStart(stream, items) ==
    /\ logStream = stream
    /\ lambdaRegion = EmptyStr
    /\ input = items
    /\ idx = 1
    /\ reqBuilder = FreshBuilder(stream)
    /\ tpc = "loop"
    /\ chan = << >>
    /\ closeCount = 0
    /\ received = << >>
    /\ cpc = "ranging"

ModeAInit ==
    \E stream \in StreamNames, msgs \in SeqsUpTo(Messages, MaxEvents) :
        ModeAStart(stream, MakeItems(msgs))

\* the inputs that tell host ids apart: every kind of event with an instance
\* id (one of them with an empty id), a Fargate log and an unclassified text
HostMessages ==
    {m \in AllMessages : m.text \in {"Hello, World", "ec2-a", "ec2-b", "ci-none", "fg-1",
                                     "app-ec2", "perf-b"}}

ModeAInitHosts ==
    \E stream \in {StreamPlain, StreamHost}, msgs \in SeqsUpTo(HostMessages, MaxEvents) :
        ModeAStart(stream, MakeItems(msgs))

\* one message of each kind the loop distinguishes: unclassified, EC2, two Fargate pods
TerminationMessages == {m \in AllMessages : m.text \in {"Hello, World", "ec2-a", "fg-1", "fg-2"}}

ModeAInitTermination ==
    \E stream \in {StreamPlain, StreamHost},
       msgs \in SeqsUpTo(TerminationMessages, MaxEvents) :
        ModeAStart(stream, MakeItems(msgs))

\* no Mode A run
ModeAIdle == ModeAStart(StreamPlain, << >>)

\* one iteration of the for loop; its sends stay offered on the channel until received
\* the loop at line 652 has a next event and the previous send has been taken
TransformStepReady == tpc = "loop" /\ idx <= Len(input) /\ chan = << >>

TransformStep ==
    /\ TransformStepReady
    /\ \E r \in {TransformItem(reqBuilder, input[idx], logStream, lambdaRegion)} :
          /\ chan' = r.out
          /\ reqBuilder' = r.rb
    /\ idx' = idx + 1
    /\ UNCHANGED <<logStream, lambdaRegion, input, tpc, closeCount, received, cpc>>
    /\ UNCHANGED <<cacheVars, modeBVars, handleVars, gcsVars, pureVars,
                   lookupVars, exportVars>>

\* TransformFinish that returns without the final send
TransformFinishSilent ==
    /\ tpc = "loop" /\ idx > Len(input) /\ chan = << >>
    /\ tpc' = "return"
    /\ UNCHANGED <<logStream, lambdaRegion, input, idx, reqBuilder, chan, closeCount,
                   received, cpc>>
    /\ UNCHANGED <<cacheVars, modeBVars, handleVars, gcsVars, pureVars,
                   lookupVars, exportVars>>

\* lines 714-717: the input is exhausted
TransformFinish ==
    /\ tpc = "loop" /\ idx > Len(input) /\ chan = << >>
    /\ LET logs == GetLogs(reqBuilder)
       IN  chan' = IF logs.nResources >= 0 THEN <<logs>> ELSE << >>
    /\ reqBuilder' = StampProvider(reqBuilder)
    /\ tpc' = "return"
    /\ UNCHANGED <<logStream, lambdaRegion, input, idx, closeCount, received, cpc>>
    /\ UNCHANGED <<cacheVars, modeBVars, handleVars, gcsVars, pureVars,
                   lookupVars, exportVars>>

\* line 647: defer close(output)
TransformClose ==
    /\ tpc = "return" /\ chan = << >>
    /\ closeCount' = closeCount + 1
    /\ tpc' = "done"
    /\ UNCHANGED <<logStream, lambdaRegion, input, idx, reqBuilder, chan, received, cpc>>
    /\ UNCHANGED <<cacheVars, modeBVars, handleVars, gcsVars, pureVars,
                   lookupVars, exportVars>>

\* handleEvent lines 627-634: one iteration of for logsData := range logsChan
Receive ==
    /\ cpc = "ranging" /\ chan # << >>
    /\ received' = Append(received, Head(chan))
    /\ chan' = Tail(chan)
    /\ UNCHANGED <<logStream, lambdaRegion, input, idx, reqBuilder, tpc, closeCount, cpc>>
    /\ UNCHANGED <<cacheVars, modeBVars, handleVars, gcsVars, pureVars,
                   lookupVars, exportVars>>

\* the range loop ends when the channel is closed
RangeEnd ==
    /\ cpc = "ranging" /\ closeCount > 0 /\ chan = << >>
    /\ cpc' = "done"
    /\ UNCHANGED <<logStream, lambdaRegion, input, idx, reqBuilder, tpc, chan, closeCount,
                   received>>
    /\ UNCHANGED <<cacheVars, modeBVars, handleVars, gcsVars, pureVars,
                   lookupVars, exportVars>>

----------------------------------------------------------------------------
(* The flow-log format cache: flowLogFormatCache.get and .set *)

Goroutines   == {"g1", "g2", "g3"}
Keys         == {"vpc-group"}
FormatTuples == { [logFormat |-> "f1", flowLogId |-> "fl-1", flowLogsCount |-> 1],
                  [logFormat |-> "f2", flowLogId |-> "fl-2", flowLogsCount |-> 2] }

\* "no entry" for the local variable of get and for lastSet
NoEntry == [logFormat |-> "", flowLogId |-> "", flowLogsCount |-> 0, cachedAt |-> 0, ser |-> 0]
NoCall  == [op |-> "none", key |-> "", logFormat |-> "", flowLogId |-> "", flowLogsCount |-> 0]
NoRet   == [op |-> "none", hit |-> FALSE, logFormat |-> "", flowLogId |-> "", flowLogsCount |-> 0]
MissRet == [op |-> "get", hit |-> FALSE, logFormat |-> "", flowLogId |-> "", flowLogsCount |-> 0]
HitRet(e) == [op |-> "get", hit |-> TRUE, logFormat |-> e.logFormat, flowLogId |-> e.flowLogId,
              flowLogsCount |-> e.flowLogsCount]
SetRet  == [op |-> "set", hit |-> FALSE, logFormat |-> "", flowLogId |-> "", flowLogsCount |-> 0]

\* an expiry test that already fires at an age equal to the TTL
ExpiredAtTTL(e, t) == t - e.cachedAt >= CacheTTL

\* time.Since(entry.cachedAt) > c.cacheTTL
Expired(e, t) == t - e.cachedAt > CacheTTL

\* sync.RWMutex
FreeLock == [readers |-> {}, writer |-> {}]
CanRLock(l)    == l.writer = {}
CanLock(l)     == l.writer = {} /\ l.readers = {}
RLock(l, g)    == [l EXCEPT !.readers = @ \cup {g}]
RUnlockKept(l, g) == l     \* an RUnlock that leaves the read lock held
RUnlock(l, g)  == [l EXCEPT !.readers = @ \ {g}]
Lock(l, g)     == [l EXCEPT !.writer = {g}]
Unlock(l, g)   == [l EXCEPT !.writer = @ \ {g}]

\* a delete under the write lock that does not test the expiry again
RecheckPresentOnly(ents, k, t) == IF Has(ents, k) THEN Delete(ents, k) ELSE ents

\* lines 337-338: the re-check under the write lock, and the delete
Recheck(ents, k, t) ==
    IF Has(ents, k) /\ Expired(ents[k], t) THEN Delete(ents, k) ELSE ents

\* lines 360-365: the entry set stores
NewEntry(ents, k, op, t, ser) ==
    UpsertString(ents, k, [logFormat |-> op.logFormat, flowLogId |-> op.flowLogId,
                           flowLogsCount |-> op.flowLogsCount, cachedAt |-> t, ser |-> ser])

CacheInit ==
    /\ entries = EmptyMap
    /\ now = 0
    /\ rwlock = FreeLock
    /\ gpc = [g \in Goroutines |-> "idle"]
    /\ gop = [g \in Goroutines |-> NoCall]
    /\ gseen = [g \in Goroutines |-> NoEntry]
    /\ gret = [g \in Goroutines |-> NoRet]
    /\ glog = [g \in Goroutines |-> << >>]
    /\ calls = 0
    /\ lastSet = [k \in Keys |-> NoEntry]
    /\ delCount = EmptyMap

\* a goroutine calls get(logGroupName)
StartGet(g) ==
    /\ gpc[g] = "idle" /\ calls < MaxCalls
    /\ \E k \in Keys : gop' = [gop EXCEPT ![g] = [NoCall EXCEPT !.op = "get", !.key = k]]
    /\ gpc' = [gpc EXCEPT ![g] = "g_rlock"]
    /\ gseen' = [gseen EXCEPT ![g] = NoEntry]
    /\ gret' = [gret EXCEPT ![g] = NoRet]
    /\ glog' = [glog EXCEPT ![g] = << >>]
    /\ calls' = calls + 1
    /\ UNCHANGED <<entries, now, rwlock, lastSet, delCount>>
    /\ UNCHANGED <<modeAVars, modeBVars, handleVars, gcsVars, pureVars,
                   lookupVars, exportVars>>

\* lines 315-327: RLock, the lookup and the expiry check
GetRLock(g) ==
    /\ gpc[g] = "g_rlock" /\ CanRLock(rwlock)
    /\ rwlock' = RLock(rwlock, g)
    /\ glog' = [glog EXCEPT ![g] = Append(@, "RLock")]
    /\ LET k == gop[g].key
       IN  IF ~Has(entries, k)
           THEN /\ gpc' = [gpc EXCEPT ![g] = "g_miss"]
                /\ UNCHANGED gseen
           ELSE /\ gseen' = [gseen EXCEPT ![g] = entries[k]]
                /\ gpc' = [gpc EXCEPT ![g] = IF Expired(entries[k], now)
                                             THEN "g_expired" ELSE "g_hit"]
    /\ UNCHANGED <<entries, now, gop, gret, calls, lastSet, delCount>>
    /\ UNCHANGED <<modeAVars, modeBVars, handleVars, gcsVars, pureVars,
                   lookupVars, exportVars>>

\* lines 319-323: no entry
GetMissRUnlock(g) ==
    /\ gpc[g] = "g_miss"
    /\ rwlock' = RUnlock(rwlock, g)
    /\ glog' = [glog EXCEPT ![g] = Append(@, "RUnlock")]
    /\ gret' = [gret EXCEPT ![g] = MissRet]
    /\ gpc' = [gpc EXCEPT ![g] = "idle"]
    /\ UNCHANGED <<entries, now, gop, gseen, calls, lastSet, delCount>>
    /\ UNCHANGED <<modeAVars, modeBVars, handleVars, gcsVars, pureVars,
                   lookupVars, exportVars>>

\* line 334: the expired entry, RUnlock before the upgrade
GetExpiredRUnlock(g) ==
    /\ gpc[g] = "g_expired"
    /\ rwlock' = RUnlock(rwlock, g)
    /\ glog' = [glog EXCEPT ![g] = Append(@, "RUnlock")]
    /\ gpc' = [gpc EXCEPT ![g] = "g_lock"]
    /\ UNCHANGED <<entries, now, gop, gseen, gret, calls, lastSet, delCount>>
    /\ UNCHANGED <<modeAVars, modeBVars, handleVars, gcsVars, pureVars,
                   lookupVars, exportVars>>

\* lines 335-342: Lock, the re-check and the delete
GetLock(g) ==
    /\ gpc[g] = "g_lock" /\ CanLock(rwlock)
    /\ rwlock' = Lock(rwlock, g)
    /\ glog' = [glog EXCEPT ![g] = Append(@, "Lock")]
    /\ LET k == gop[g].key
       IN  /\ entries' = Recheck(entries, k, now)
           /\ delCount' = IF entries' # entries
                          THEN LET s == <<k, IF Has(entries, k) THEN entries[k].ser
                                                ELSE gseen[g].ser>>
                               IN  UpsertString(delCount, s,
                                                IF Has(delCount, s) THEN delCount[s] + 1 ELSE 1)
                          ELSE delCount
    /\ gpc' = [gpc EXCEPT ![g] = "g_unlock"]
    /\ UNCHANGED <<now, gop, gseen, gret, calls, lastSet>>
    /\ UNCHANGED <<modeAVars, modeBVars, handleVars, gcsVars, pureVars,
                   lookupVars, exportVars>>

\* lines 343-344
GetUnlock(g) ==
    /\ gpc[g] = "g_unlock"
    /\ rwlock' = Unlock(rwlock, g)
    /\ glog' = [glog EXCEPT ![g] = Append(@, "Unlock")]
    /\ gret' = [gret EXCEPT ![g] = MissRet]
    /\ gpc' = [gpc EXCEPT ![g] = "idle"]
    /\ UNCHANGED <<entries, now, gop, gseen, calls, lastSet, delCount>>
    /\ UNCHANGED <<modeAVars, modeBVars, handleVars, gcsVars, pureVars,
                   lookupVars, exportVars>>

\* lines 351-352: the hit
GetHitRUnlock(g) ==
    /\ gpc[g] = "g_hit"
    /\ rwlock' = RUnlock(rwlock, g)
    /\ glog' = [glog EXCEPT ![g] = Append(@, "RUnlock")]
    /\ gret' = [gret EXCEPT ![g] = HitRet(gseen[g])]
    /\ gpc' = [gpc EXCEPT ![g] = "idle"]
    /\ UNCHANGED <<entries, now, gop, gseen, calls, lastSet, delCount>>
    /\ UNCHANGED <<modeAVars, modeBVars, handleVars, gcsVars, pureVars,
                   lookupVars, exportVars>>

\* a goroutine calls set(logGroupName, logFormat, flowLogId, flowLogsCount)
StartSet(g) ==
    /\ gpc[g] = "idle" /\ calls < MaxCalls
    /\ \E k \in Keys, f \in FormatTuples :
          gop' = [gop EXCEPT ![g] = [op |-> "set", key |-> k, logFormat |-> f.logFormat,
                                     flowLogId |-> f.flowLogId,
                                     flowLogsCount |-> f.flowLogsCount]]
    /\ gpc' = [gpc EXCEPT ![g] = "s_lock"]
    /\ gseen' = [gseen EXCEPT ![g] = NoEntry]
    /\ gret' = [gret EXCEPT ![g] = NoRet]
    /\ glog' = [glog EXCEPT ![g] = << >>]
    /\ calls' = calls + 1
    /\ UNCHANGED <<entries, now, rwlock, lastSet, delCount>>
    /\ UNCHANGED <<modeAVars, modeBVars, handleVars, gcsVars, pureVars,
                   lookupVars, exportVars>>

\* lines 357-365: Lock and the store
SetLock(g) ==
    /\ gpc[g] = "s_lock" /\ CanLock(rwlock)
    /\ rwlock' = Lock(rwlock, g)
    /\ glog' = [glog EXCEPT ![g] = Append(@, "Lock")]
    /\ LET k   == gop[g].key
           ser == lastSet[k].ser + 1
       IN  /\ entries' = NewEntry(entries, k, gop[g], now, ser)
           /\ lastSet' = [lastSet EXCEPT ![k] =
                             [logFormat |-> gop[g].logFormat, flowLogId |-> gop[g].flowLogId,
                              flowLogsCount |-> gop[g].flowLogsCount, cachedAt |-> now,
                              ser |-> ser]]
    /\ gpc' = [gpc EXCEPT ![g] = "s_unlock"]
    /\ UNCHANGED <<now, gop, gseen, gret, calls, delCount>>
    /\ UNCHANGED <<modeAVars, modeBVars, handleVars, gcsVars, pureVars,
                   lookupVars, exportVars>>

\* line 358: defer c.mu.Unlock()
SetUnlock(g) ==
    /\ gpc[g] = "s_unlock"
    /\ rwlock' = Unlock(rwlock, g)
    /\ glog' = [glog EXCEPT ![g] = Append(@, "Unlock")]
    /\ gret' = [gret EXCEPT ![g] = SetRet]
    /\ gpc' = [gpc EXCEPT ![g] = "idle"]
    /\ UNCHANGED <<entries, now, gop, gseen, calls, lastSet, delCount>>
    /\ UNCHANGED <<modeAVars, modeBVars, handleVars, gcsVars, pureVars,
                   lookupVars, exportVars>>

\* the clock advances
Tick ==
    /\ now < MaxTime
    /\ now' = now + 1
    /\ UNCHANGED <<entries, rwlock, gpc, gop, gseen, gret, glog, calls, lastSet, delCount>>
    /\ UNCHANGED <<modeAVars, modeBVars, handleVars, gcsVars, pureVars,
                   lookupVars, exportVars>>

----------------------------------------------------------------------------
(* Mode B: the flow-log parsers *)

SpaceChars == {" ", "\t", "\n", "\r"}

\* length of the run of non-space characters of s starting at from
RECURSIVE TokenLen(_, _)
TokenLen(s, from) ==
    IF from > Len(s) \/ Ch(s, from) \in SpaceChars THEN 0
    ELSE 1 + TokenLen(s, from + 1)

\* strings.Fields: the maximal runs of non-space characters of s
RECURSIVE FieldsFrom(_, _)
FieldsFrom(s, p) ==
    LET q == p + RunLen(s, p, SpaceChars)
        n == TokenLen(s, q)
    IN  IF n = 0 THEN << >>
        ELSE <<SubSeq(s, q, q + n - 1)>> \o FieldsFrom(s, q + n)

Fields(s) == FieldsFrom(s, 1)

DigitVal(c) ==
    CASE c = "0" -> 0 [] c = "1" -> 1 [] c = "2" -> 2 [] c = "3" -> 3 [] c = "4" -> 4
      [] c = "5" -> 5 [] c = "6" -> 6 [] c = "7" -> 7 [] c = "8" -> 8 [] c = "9" -> 9

\* the value of the decimal numeral s[p..], continuing from acc; -1 when a
\* character is not a digit.  The model's integers are narrower than int64:
\* a value of 200000000 or more stops growing, so longer numerals (a 12-digit
\* account id read as a number) keep their sign and stay large.
RECURSIVE DigitsVal(_, _, _)
DigitsVal(s, p, acc) ==
    IF p > Len(s) THEN acc
    ELSE IF Ch(s, p) \notin DigitChars THEN -1
    ELSE DigitsVal(s, p + 1, IF acc >= 200000000 THEN acc
                             ELSE acc * 10 + DigitVal(Ch(s, p)))

\* strconv.ParseInt(s, 10, 64): an optional sign and at least one digit. The
\* numerals of the model's inputs are inside the int64 range.
ParseInt(s) ==
    LET signed == Len(s) > 0 /\ Ch(s, 1) \in {"+", "-"}
        body   == IF signed THEN SubSeq(s, 2, Len(s)) ELSE s
        v      == IF Len(body) = 0 THEN -1 ELSE DigitsVal(body, 1, 0)
    IN  IF v < 0 THEN [val |-> 0, err |-> TRUE]
        ELSE [val |-> IF signed /\ Ch(s, 1) = "-" THEN 0 - v ELSE v, err |-> FALSE]

\* parseInt64: 0 on error
parseInt64(s) == ParseInt(s).val

\* the fields of FlowLogRecord the model keeps, by json tag
StringTags == {"version", "account-id", "interface-id", "srcaddr", "dstaddr", "srcport",
               "dstport", "protocol", "action", "log-status", "vpc-id", "subnet-id"}
Int64Tags  == {"packets", "bytes", "start", "end"}
FlowLogRecord == [tag \in StringTags \cup Int64Tags |-> IF tag \in Int64Tags THEN 0 ELSE ""]

VpcFlowLogsDefaultVersion == "2"
VpcFlowLogsDefaultVersionFieldsCount == 14
V2DefaultFieldNames ==
    <<"version", "account-id", "interface-id", "srcaddr", "dstaddr", "srcport", "dstport",
      "protocol", "packets", "bytes", "start", "end", "action", "log-status">>
DefaultNames == {V2DefaultFieldNames[i] : i \in 1..Len(V2DefaultFieldNames)}
VpcFlowLogsDefaultFormatString ==
    "${version} ${account-id} ${interface-id} ${srcaddr} ${dstaddr} ${srcport} ${dstport} ${protocol} ${packets} ${bytes} ${start} ${end} ${action} ${log-status}"

\* errors: kind "" is nil
NoErr == [kind |-> "", field |-> ""]
ParseError == [kind |-> "ParseError", field |-> ""]
ValidationError(f) == [kind |-> "ValidationError", field |-> f]

\* strings.TrimPrefix(rawField, "${") then strings.TrimSuffix(.., "}")
CleanField(rawField) ==
    LET a == IF StartsWith(rawField, "${") THEN SubSeq(rawField, 3, Len(rawField)) ELSE rawField
    IN  IF Len(a) > 0 /\ Ch(a, Len(a)) = "}" THEN SubSeq(a, 1, Len(a) - 1) ELSE a

\* FieldPresenceMap: nil, or the set of field names of the format
NilPresence == [isNil |-> TRUE, fields |-> {}]
NewFieldPresenceMap(format) ==
    IF format = "" \/ format = VpcFlowLogsDefaultFormatString THEN NilPresence
    ELSE LET fs == Fields(format)
         IN  [isNil |-> FALSE, fields |-> {CleanField(fs[i]) : i \in 1..Len(fs)}]

\* a presence map that has every field
HasFieldAlways(f, awsFieldName) == TRUE

\* FieldPresenceMap.HasField (a nil map answers for the default fields)
HasField(f, awsFieldName) ==
    IF f.isNil THEN \E i \in 1..Len(V2DefaultFieldNames) : V2DefaultFieldNames[i] = awsFieldName
    ELSE awsFieldName \in f.fields

\* the least element of a non-empty set of numbers
MinOf(S) == CHOOSE x \in S : \A y \in S : x <= y

\* the string and the numeric fields validateFlowLogRecord checks, in its order
ValidatedStringFields ==
    <<"version", "account-id", "interface-id", "srcaddr", "dstaddr", "srcport", "dstport",
      "protocol", "action", "log-status">>
ValidatedNumericFields == <<"packets", "bytes", "start", "end">>

\* a digit check that passes every string
AllDigitsAnything(s) == TRUE

AllDigits(s) == \A i \in 1..Len(s) : Ch(s, i) \in DigitChars

\* validateFlowLogRecord(record, fieldPresence): the first failing check
validateFlowLogRecord(record, fieldPresence) ==
    LET present(n) == fieldPresence.isNil \/ HasField(fieldPresence, n)
        missing == {i \in 1..Len(V2DefaultFieldNames) :
                       ~HasField(fieldPresence, V2DefaultFieldNames[i])}
        empty   == {i \in 1..Len(ValidatedStringFields) :
                       present(ValidatedStringFields[i]) /\ record[ValidatedStringFields[i]] = ""}
        neg     == {i \in 1..Len(ValidatedNumericFields) :
                       present(ValidatedNumericFields[i])
                       /\ record[ValidatedNumericFields[i]] < 0}
    IN  IF ~fieldPresence.isNil /\ missing # {}
        THEN ValidationError(V2DefaultFieldNames[MinOf(missing)])
        ELSE IF empty # {} THEN ValidationError(ValidatedStringFields[MinOf(empty)])
        ELSE IF neg # {} THEN ValidationError(ValidatedNumericFields[MinOf(neg)])
        ELSE IF (fieldPresence.isNil
                 \/ (HasField(fieldPresence, "start") /\ HasField(fieldPresence, "end")))
                /\ record["start"] > record["end"]
        THEN ValidationError("start")
        ELSE IF present("account-id")
                /\ (Len(record["account-id"]) # 12 \/ ~AllDigits(record["account-id"]))
        THEN ValidationError("account-id")
        ELSE IF present("action") /\ record["action"] \notin {"ACCEPT", "REJECT"}
        THEN ValidationError("action")
        ELSE IF present("log-status") /\ record["log-status"] \notin {"OK", "NODATA", "SKIPDATA"}
        THEN ValidationError("log-status")
        ELSE NoErr

\* a version check that accepts the default version only
VersionNotDefault(version) == version # VpcFlowLogsDefaultVersion

\* version < minVersion, both parsed by parseInt64 (handler_parser.go 62-64, 103-105)
VersionTooOld(version) == parseInt64(version) < parseInt64(VpcFlowLogsDefaultVersion)

\* parseFlowLogRecordDefault: the record (nil: FlowLogRecord with isNil) and the error
NilRecord == [isNil |-> TRUE, rec |-> FlowLogRecord]
SomeRecord(r) == [isNil |-> FALSE, rec |-> r]

parseFlowLogRecordDefault(message) ==
    LET fields == Fields(message)
    IN  IF Len(fields) # VpcFlowLogsDefaultVersionFieldsCount
        THEN [record |-> NilRecord, err |-> ParseError]
        ELSE LET logRecord ==
                     [FlowLogRecord EXCEPT
                        !["version"] = fields[1], !["account-id"] = fields[2],
                        !["interface-id"] = fields[3], !["srcaddr"] = fields[4],
                        !["dstaddr"] = fields[5], !["srcport"] = fields[6],
                        !["dstport"] = fields[7], !["protocol"] = fields[8],
                        !["packets"] = parseInt64(fields[9]),
                        !["bytes"] = parseInt64(fields[10]),
                        !["start"] = parseInt64(fields[11]),
                        !["end"] = parseInt64(fields[12]),
                        !["action"] = fields[13], !["log-status"] = fields[14]]
                 verr == validateFlowLogRecord(logRecord, NilPresence)
             IN  IF VersionTooOld(logRecord["version"])
                 THEN [record |-> NilRecord, err |-> ValidationError("version")]
                 ELSE IF verr # NoErr THEN [record |-> NilRecord, err |-> verr]
                 ELSE [record |-> SomeRecord(logRecord), err |-> NoErr]

\* a loop that stores the string fields only
RECURSIVE SetStringFields(_, _, _, _)
SetStringFields(rec, formatFields, logFields, i) ==
    IF i > Len(formatFields) THEN rec
    ELSE SetStringFields(IF CleanField(formatFields[i]) \in StringTags
                         THEN [rec EXCEPT ![CleanField(formatFields[i])] = logFields[i]]
                         ELSE rec,
                         formatFields, logFields, i + 1)

\* parseToStruct: the format's fields name the json tags the line's fields are stored under
RECURSIVE SetFields(_, _, _, _)
SetFields(rec, formatFields, logFields, i) ==
    IF i > Len(formatFields) THEN rec
    ELSE LET cleanField == CleanField(formatFields[i])
             r2 == IF cleanField \in StringTags THEN [rec EXCEPT ![cleanField] = logFields[i]]
                   ELSE IF cleanField \in Int64Tags
                        THEN [rec EXCEPT ![cleanField] = parseInt64(logFields[i])]
                        ELSE rec
         IN  SetFields(r2, formatFields, logFields, i + 1)

parseToStruct(format, line) ==
    LET formatFields == Fields(format)
        logFields    == Fields(line)
    IN  IF Len(formatFields) # Len(logFields)
        THEN [record |-> NilRecord, err |-> TRUE]
        ELSE [record |-> SomeRecord(SetFields(FlowLogRecord, formatFields, logFields, 1)),
              err |-> FALSE]

parseFlowLogRecordCustom(message, format) ==
    LET p == parseToStruct(format, message)
    IN  IF p.err THEN [record |-> NilRecord, err |-> ParseError]
        ELSE LET logRecord == p.record.rec
                 verr == validateFlowLogRecord(logRecord, NewFieldPresenceMap(format))
             IN  IF VersionTooOld(logRecord["version"])
                 THEN [record |-> NilRecord, err |-> ValidationError("version")]
                 ELSE IF verr # NoErr THEN [record |-> NilRecord, err |-> verr]
                 ELSE [record |-> SomeRecord(logRecord), err |-> NoErr]

isDefaultFormat(format) == format = "" \/ format = VpcFlowLogsDefaultFormatString

\* insertAttributes: the non-empty string fields (under their json tags) and start, end
insertAttributes(logRecord) ==
    [tag \in {s \in StringTags : logRecord[s] # ""} \cup {"start", "end"} |-> logRecord[tag]]

\* createMetrics: the envelope with the bytes and the packets gauge of one record
createMetrics(logRecord) ==
    [Name |-> "VPC Flow Logs", timestamp |-> logRecord["start"],
     bytes |-> logRecord["bytes"], packets |-> logRecord["packets"],
     attributes |-> insertAttributes(logRecord)]

\* a loop body without the two continue statements
KeptAnyway(r) == [ok |-> TRUE, record |-> r.record.rec, err |-> r.err]

\* lines 157-164: the record is kept iff err is nil and the record is not nil
Kept(r) == [ok |-> r.err = NoErr /\ ~r.record.isNil, record |-> r.record.rec, err |-> r.err]

\* lines 152-156: parse with the parser the format selects
parseFlowLogRecord(message, format) ==
    IF isDefaultFormat(format) THEN parseFlowLogRecordDefault(message)
    ELSE parseFlowLogRecordCustom(message, format)

\* lines 152-164
ParseRecord(message, format) == Kept(parseFlowLogRecord(message, format))

----------------------------------------------------------------------------
(* Mode B: TransformVpcFlowLogs *)

LineAccept    == "2 123456789012 eni-1 10.0.0.1 10.0.0.2 443 80 6 10 840 1 2 ACCEPT OK"
LineReject    == "5 123456789012 eni-2 10.0.0.3 10.0.0.4 22 5000 6 3 120 4 9 REJECT NODATA"
LineShort     == "2 123456789012 eni-1"
LineBadAction == "2 123456789012 eni-1 10.0.0.1 10.0.0.2 443 80 6 10 840 1 2 DROP OK"
LineVpc       == "2 123456789012 eni-3 10.0.0.5 10.0.0.6 53 53 17 1 60 3 3 ACCEPT OK vpc-1"
FlowLines     == {LineAccept, LineReject, LineShort, LineBadAction, LineVpc}

CustomFormat  == VpcFlowLogsDefaultFormatString \o " ${vpc-id}"
ShortFormat   == "${version} ${account-id} ${interface-id}"

\* what h.getFlowLogFormat can return: a format, or an error
NoLookup      == [format |-> "", err |-> FALSE]
LookupResults == { [format |-> "", err |-> TRUE],
                   [format |-> VpcFlowLogsDefaultFormatString, err |-> FALSE],
                   [format |-> CustomFormat, err |-> FALSE],
                   [format |-> ShortFormat, err |-> FALSE] }

\* the state when TransformVpcFlowLogs starts
ModeBStart(messages, need, lookup) ==
    /\ vInput = messages
    /\ vIdx = 1
    /\ vpc = "start"
    /\ vChan = << >>
    /\ vCloseCount = 0
    /\ vReceived = << >>
    /\ vCancelled = FALSE
    /\ vNeedLookup = need
    /\ vLookup = lookup
    /\ vFormat = ""
    /\ vExit = "none"
    /\ vSeenCancel = 0
    /\ vTrace = << >>

ModeBInit ==
    \E messages \in SeqsUpTo(FlowLines, MaxRecords) :
        \/ ModeBStart(messages, FALSE, NoLookup)
        \/ \E lookup \in LookupResults : ModeBStart(messages, TRUE, lookup)

\* no Mode B run
ModeBIdle == ModeBStart(<< >>, FALSE, NoLookup)

\* lines 101-124: the format lookup, made only when the supported version is not
\* the default version
FormatLookup ==
    /\ vpc = "start"
    /\ IF vNeedLookup /\ vLookup.err
       THEN /\ vExit' = "lookup_failed"
            /\ vpc' = "return"
            /\ UNCHANGED vFormat
       ELSE /\ vFormat' = IF vNeedLookup THEN vLookup.format ELSE ""
            /\ vpc' = "loop"
            /\ UNCHANGED vExit
    /\ UNCHANGED <<vInput, vIdx, vChan, vCloseCount, vReceived, vCancelled, vNeedLookup,
                   vLookup, vSeenCancel, vTrace>>
    /\ UNCHANGED <<modeAVars, cacheVars, handleVars, gcsVars, pureVars,
                   lookupVars, exportVars>>

\* lines 137-140: the select finds ctx.Done() closed
ObserveCancel ==
    /\ vpc = "loop" /\ vIdx <= Len(vInput) /\ vChan = << >>
    /\ vCancelled
    /\ vSeenCancel' = vIdx
    /\ vExit' = "cancelled"
    /\ vpc' = "return"
    /\ UNCHANGED <<vInput, vIdx, vChan, vCloseCount, vReceived, vCancelled, vNeedLookup,
                   vLookup, vFormat, vTrace>>
    /\ UNCHANGED <<modeAVars, cacheVars, handleVars, gcsVars, pureVars,
                   lookupVars, exportVars>>

\* a loop body that does not look at ctx.Done()
ProcessRecordUnchecked ==
    /\ vpc = "loop" /\ vIdx <= Len(vInput) /\ vChan = << >>
    /\ \E r \in {ParseRecord(vInput[vIdx], vFormat)} :
          /\ vChan' = IF r.ok THEN <<createMetrics(r.record)>> ELSE << >>
          /\ vTrace' = Append(vTrace, [idx |-> vIdx, sent |-> r.ok])
    /\ vIdx' = vIdx + 1
    /\ UNCHANGED <<vInput, vpc, vCloseCount, vReceived, vCancelled, vNeedLookup, vLookup,
                   vFormat, vExit, vSeenCancel>>
    /\ UNCHANGED <<modeAVars, cacheVars, handleVars, gcsVars, pureVars,
                   lookupVars, exportVars>>

\* lines 141-196: the select takes the default case; parse, skip or send
ProcessRecord ==
    /\ vpc = "loop" /\ vIdx <= Len(vInput) /\ vChan = << >>
    /\ ~vCancelled
    /\ \E r \in {ParseRecord(vInput[vIdx], vFormat)} :
          /\ vChan' = IF r.ok THEN <<createMetrics(r.record)>> ELSE << >>
          /\ vTrace' = Append(vTrace, [idx |-> vIdx, sent |-> r.ok])
    /\ vIdx' = vIdx + 1
    /\ UNCHANGED <<vInput, vpc, vCloseCount, vReceived, vCancelled, vNeedLookup, vLookup,
                   vFormat, vExit, vSeenCancel>>
    /\ UNCHANGED <<modeAVars, cacheVars, handleVars, gcsVars, pureVars,
                   lookupVars, exportVars>>

\* the range loop is over
InputExhausted ==
    /\ vpc = "loop" /\ vIdx > Len(vInput) /\ vChan = << >>
    /\ vExit' = "exhausted"
    /\ vpc' = "return"
    /\ UNCHANGED <<vInput, vIdx, vChan, vCloseCount, vReceived, vCancelled, vNeedLookup,
                   vLookup, vFormat, vSeenCancel, vTrace>>
    /\ UNCHANGED <<modeAVars, cacheVars, handleVars, gcsVars, pureVars,
                   lookupVars, exportVars>>

\* line 99: defer close(output)
CloseOutput ==
    /\ vpc = "return"
    /\ vCloseCount' = vCloseCount + 1
    /\ vpc' = "done"
    /\ UNCHANGED <<vInput, vIdx, vChan, vReceived, vCancelled, vNeedLookup, vLookup, vFormat,
                   vExit, vSeenCancel, vTrace>>
    /\ UNCHANGED <<modeAVars, cacheVars, handleVars, gcsVars, pureVars,
                   lookupVars, exportVars>>

\* the consumer takes the offered envelope
ReceiveMetrics ==
    /\ vChan # << >>
    /\ vReceived' = Append(vReceived, Head(vChan))
    /\ vChan' = Tail(vChan)
    /\ UNCHANGED <<vInput, vIdx, vpc, vCloseCount, vCancelled, vNeedLookup, vLookup, vFormat,
                   vExit, vSeenCancel, vTrace>>
    /\ UNCHANGED <<modeAVars, cacheVars, handleVars, gcsVars, pureVars,
                   lookupVars, exportVars>>

\* the context is cancelled (deadline or caller)
Cancel ==
    /\ ~vCancelled
    /\ vCancelled' = TRUE
    /\ UNCHANGED <<vInput, vIdx, vpc, vChan, vCloseCount, vReceived, vNeedLookup, vLookup,
                   vFormat, vExit, vSeenCancel, vTrace>>
    /\ UNCHANGED <<modeAVars, cacheVars, handleVars, gcsVars, pureVars,
                   lookupVars, exportVars>>

----------------------------------------------------------------------------
(* Handler.getFlowLogFormatCached in front of TransformVpcFlowLogs, over    *)
(* the consecutive invocations one handler serves                           *)

MaxRuns == 3
VpcLogGroup == "vpc-group"

\* what the provider API can return for the log group
ProviderTuples ==
    { [logFormat |-> VpcFlowLogsDefaultFormatString, flowLogId |-> "fl-1", flowLogsCount |-> 1],
      [logFormat |-> CustomFormat, flowLogId |-> "fl-2", flowLogsCount |-> 2] }

NoTuple   == [logFormat |-> "", flowLogId |-> "", flowLogsCount |-> 0]
NotStored == [set |-> FALSE, tuple |-> NoTuple, at |-> 0]
NotAsked  == [stored |-> NotStored, at |-> 0]
NoResult  == [returned |-> FALSE, tuple |-> NoTuple, err |-> FALSE]

\* the (format, id, count) of a cache entry
TupleOf(e) ==
    [logFormat |-> e.logFormat, flowLogId |-> e.flowLogId, flowLogsCount |-> e.flowLogsCount]

\* the inputs of an invocation
LookupInputs == {<<LineAccept>>, <<LineVpc, LineShort>>}

LookupIdle ==
    /\ lkPc = "idle"
    /\ lkSeen = NotAsked
    /\ lkCalled = FALSE
    /\ lkRet = NoResult
    /\ lkStored = NotStored
    /\ lkRuns = 0

\* the first invocation of a new handler, in a build that asks for the format
LookupInit ==
    /\ \E messages \in LookupInputs : ModeBStart(messages, TRUE, NoLookup)
    /\ lkPc = "idle"
    /\ lkSeen = NotAsked
    /\ lkCalled = FALSE
    /\ lkRet = NoResult
    /\ lkStored = NotStored
    /\ lkRuns = 1

\* a get that returns any entry it finds, whatever its age
CacheGetIgnoreExpiry(ents, k, t) ==
    IF Has(ents, k)
    THEN [found |-> TRUE, entry |-> ents[k], entries |-> ents]
    ELSE [found |-> FALSE, entry |-> NoEntry, entries |-> ents]

\* flowLogFormatCache.get called by the only goroutine that uses the cache:
\* the entry found, and the entries the call leaves
CacheGet(ents, k, t) ==
    IF Has(ents, k) /\ ~Expired(ents[k], t)
    THEN [found |-> TRUE, entry |-> ents[k], entries |-> ents]
    ELSE [found |-> FALSE, entry |-> NoEntry, entries |-> Recheck(ents, k, t)]

\* part_008 line 74: h.formatCache.get(logGroupName); a hit returns at line 75
LookupGet ==
    /\ vpc = "start" /\ vNeedLookup /\ lkPc = "idle"
    /\ \E r \in {CacheGet(entries, VpcLogGroup, now)} :
          /\ entries' = r.entries
          /\ IF r.found
             THEN /\ lkPc' = "returned"
                  /\ lkRet' = [returned |-> TRUE, tuple |-> TupleOf(r.entry), err |-> FALSE]
                  /\ vLookup' = [format |-> r.entry.logFormat, err |-> FALSE]
             ELSE /\ lkPc' = "miss"
                  /\ UNCHANGED <<lkRet, vLookup>>
    /\ lkSeen' = [stored |-> lkStored, at |-> now]
    /\ lkCalled' = FALSE
    /\ UNCHANGED <<lkStored, lkRuns>>
    /\ UNCHANGED <<now, rwlock, gpc, gop, gseen, gret, glog, calls, lastSet, delCount>>
    /\ UNCHANGED <<vInput, vIdx, vpc, vChan, vCloseCount, vReceived, vCancelled, vNeedLookup,
                   vFormat, vExit, vSeenCancel, vTrace>>
    /\ UNCHANGED <<modeAVars, handleVars, gcsVars, pureVars, exportVars>>

\* lines 79-87: getFlowLogFormat succeeds, the tuple is stored and returned
ProviderSucceeds ==
    /\ lkPc = "miss"
    /\ \E f \in ProviderTuples :
          /\ entries' = NewEntry(entries, VpcLogGroup, f, now, lastSet[VpcLogGroup].ser + 1)
          /\ lastSet' = [lastSet EXCEPT ![VpcLogGroup] =
                            [logFormat |-> f.logFormat, flowLogId |-> f.flowLogId,
                             flowLogsCount |-> f.flowLogsCount, cachedAt |-> now,
                             ser |-> @.ser + 1]]
          /\ lkStored' = [set |-> TRUE, tuple |-> f, at |-> now]
          /\ lkRet' = [returned |-> TRUE, tuple |-> f, err |-> FALSE]
          /\ vLookup' = [format |-> f.logFormat, err |-> FALSE]
    /\ lkCalled' = TRUE
    /\ lkPc' = "returned"
    /\ UNCHANGED <<lkSeen, lkRuns>>
    /\ UNCHANGED <<now, rwlock, gpc, gop, gseen, gret, glog, calls, delCount>>
    /\ UNCHANGED <<vInput, vIdx, vpc, vChan, vCloseCount, vReceived, vCancelled, vNeedLookup,
                   vFormat, vExit, vSeenCancel, vTrace>>
    /\ UNCHANGED <<modeAVars, handleVars, gcsVars, pureVars, exportVars>>

\* lines 79-82: getFlowLogFormat fails, the error is returned
ProviderFails ==
    /\ lkPc = "miss"
    /\ lkRet' = [returned |-> TRUE, tuple |-> NoTuple, err |-> TRUE]
    /\ vLookup' = [format |-> "", err |-> TRUE]
    /\ lkCalled' = TRUE
    /\ lkPc' = "returned"
    /\ UNCHANGED <<lkSeen, lkStored, lkRuns>>
    /\ UNCHANGED cacheVars
    /\ UNCHANGED <<vInput, vIdx, vpc, vChan, vCloseCount, vReceived, vCancelled, vNeedLookup,
                   vFormat, vExit, vSeenCancel, vTrace>>
    /\ UNCHANGED <<modeAVars, handleVars, gcsVars, pureVars, exportVars>>

\* line 110 onwards: TransformVpcFlowLogs goes on with what the call returned
LookupFormat == lkPc = "returned" /\ FormatLookup

\* the handler serves the next invocation
NextRun ==
    /\ vpc = "done" /\ vChan = << >> /\ lkRuns < MaxRuns
    /\ \E messages \in LookupInputs : vInput' = messages
    /\ vIdx' = 1
    /\ vpc' = "start"
    /\ vCloseCount' = 0
    /\ vReceived' = << >>
    /\ vLookup' = NoLookup
    /\ vFormat' = ""
    /\ vExit' = "none"
    /\ vSeenCancel' = 0
    /\ vTrace' = << >>
    /\ lkPc' = "idle"
    /\ lkCalled' = FALSE
    /\ lkRet' = NoResult
    /\ lkRuns' = lkRuns + 1
    /\ UNCHANGED <<vChan, vCancelled, vNeedLookup, lkSeen, lkStored>>
    /\ UNCHANGED <<modeAVars, cacheVars, handleVars, gcsVars, pureVars, exportVars>>

----------------------------------------------------------------------------
(* handleEvent: the export loop of the logs branch and the aggregate outcome *)

NilError == ""
ParseFailed == "parse"
DialFailed  == "dial"
\* the error the n-th Export call returns when it fails
ExportError(n) == "export " \o ToString(n)

\* line 576: r = "failure"; no export yet
HandleFresh ==
    /\ hErrs = << >>
    /\ hErr = NilError
    /\ hResult = "failure"
    /\ hOutcomes = << >>

\* handleEvent is entered: the transformer is not started yet
HandleStart(stream, items) ==
    /\ logStream = stream
    /\ lambdaRegion = EmptyStr
    /\ input = items
    /\ idx = 1
    /\ reqBuilder = FreshBuilder(stream)
    /\ tpc = "idle"
    /\ chan = << >>
    /\ closeCount = 0
    /\ received = << >>
    /\ cpc = "start"
    /\ HandleFresh

HandleInit ==
    \E msgs \in SeqsUpTo(TerminationMessages, MaxEvents) :
        HandleStart(StreamPlain, MakeItems(msgs))

\* no handleEvent run
HandleIdle == HandleFresh

\* lines 577-581: event.AWSLogs.Parse() fails
ParseFails ==
    /\ cpc = "start"
    /\ hErr' = ParseFailed
    /\ cpc' = "done"
    /\ UNCHANGED <<logStream, lambdaRegion, input, idx, reqBuilder, tpc, chan, closeCount,
                   received, hErrs, hResult, hOutcomes>>
    /\ UNCHANGED <<cacheVars, modeBVars, gcsVars, pureVars,
                   lookupVars, exportVars>>

\* lines 590-595: grpc.Dial fails
DialFails ==
    /\ cpc = "start"
    /\ hErr' = DialFailed
    /\ cpc' = "done"
    /\ UNCHANGED <<logStream, lambdaRegion, input, idx, reqBuilder, tpc, chan, closeCount,
                   received, hErrs, hResult, hOutcomes>>
    /\ UNCHANGED <<cacheVars, modeBVars, gcsVars, pureVars,
                   lookupVars, exportVars>>

\* lines 577-625: parse and dial succeed, go transformLogEvents(...)
StartTransform ==
    /\ cpc = "start"
    /\ tpc' = "loop"
    /\ cpc' = "ranging"
    /\ UNCHANGED <<logStream, lambdaRegion, input, idx, reqBuilder, chan, closeCount,
                   received, hErrs, hErr, hResult, hOutcomes>>
    /\ UNCHANGED <<cacheVars, modeBVars, gcsVars, pureVars,
                   lookupVars, exportVars>>

\* lines 627-634: one iteration of the range loop, the Export call included
ReceiveExport ==
    /\ cpc = "ranging" /\ chan # << >>
    /\ received' = Append(received, Head(chan))
    /\ chan' = Tail(chan)
    /\ \E e \in {NilError, ExportError(Len(received) + 1)} :
          /\ hErr' = e
          /\ hErrs' = IF e # NilError THEN Append(hErrs, e) ELSE hErrs
          /\ hOutcomes' = Append(hOutcomes, e)
    /\ UNCHANGED <<logStream, lambdaRegion, input, idx, reqBuilder, tpc, closeCount, cpc,
                   hResult>>
    /\ UNCHANGED <<cacheVars, modeBVars, gcsVars, pureVars,
                   lookupVars, exportVars>>

\* a return that reports the first recorded error
HandleReturnFirstError ==
    /\ cpc = "ranging" /\ closeCount > 0 /\ chan = << >>
    /\ IF Len(hErrs) = 0
       THEN hResult' = "success" /\ UNCHANGED hErr
       ELSE hErr' = hErrs[1] /\ UNCHANGED hResult
    /\ cpc' = "done"
    /\ UNCHANGED <<logStream, lambdaRegion, input, idx, reqBuilder, tpc, chan, closeCount,
                   received, hErrs, hOutcomes>>
    /\ UNCHANGED <<cacheVars, modeBVars, gcsVars, pureVars,
                   lookupVars, exportVars>>

\* lines 636-643: the range loop is over; the aggregate outcome
HandleReturn ==
    /\ cpc = "ranging" /\ closeCount > 0 /\ chan = << >>
    /\ IF Len(hErrs) = 0
       THEN hResult' = "success" /\ UNCHANGED hErr
       ELSE hErr' = hErrs[Len(hErrs)] /\ UNCHANGED hResult
    /\ cpc' = "done"
    /\ UNCHANGED <<logStream, lambdaRegion, input, idx, reqBuilder, tpc, chan, closeCount,
                   received, hErrs, hOutcomes>>
    /\ UNCHANGED <<cacheVars, modeBVars, gcsVars, pureVars,
                   lookupVars, exportVars>>

----------------------------------------------------------------------------
(* ProcessAndExportVpcFlowLogs: the export loop and the result              *)

NoneExported == "Failed to process any VPC flow log records"

ExportIdle ==
    /\ xPc = "idle"
    /\ xCount = 0
    /\ xErrs = << >>
    /\ xOutcomes = << >>

\* the state when ProcessAndExportVpcFlowLogs has started the transformer
ExportInit ==
    /\ \E messages \in SeqsUpTo({LineAccept, LineShort}, MaxRecords) :
          \/ ModeBStart(messages, FALSE, NoLookup)
          \/ ModeBStart(messages, TRUE, [format |-> "", err |-> TRUE])
    /\ xPc = "ranging"
    /\ xCount = 0
    /\ xErrs = << >>
    /\ xOutcomes = << >>

\* config.go lines 209-221: one iteration of for processedMetric := range
\* vpcLogChan; Export returns nil or an error
ExportMetrics ==
    /\ xPc = "ranging" /\ vChan # << >>
    /\ vReceived' = Append(vReceived, Head(vChan))
    /\ vChan' = Tail(vChan)
    /\ \E e \in {NilError, ExportError(Len(vReceived) + 1)} :
          /\ xOutcomes' = Append(xOutcomes, e)
          /\ xErrs' = IF e # NilError THEN Append(xErrs, e) ELSE xErrs
          /\ xCount' = IF e = NilError THEN xCount + 1 ELSE xCount
    /\ UNCHANGED xPc
    /\ UNCHANGED <<vInput, vIdx, vpc, vCloseCount, vCancelled, vNeedLookup, vLookup, vFormat,
                   vExit, vSeenCancel, vTrace>>
    /\ UNCHANGED <<modeAVars, cacheVars, handleVars, gcsVars, pureVars, lookupVars>>

\* a return that leaves errs as the loop left it
FinalErrsAsCollected(count, errs) == errs

\* lines 224-228: when nothing was exported an error saying so is appended
FinalErrs(count, errs) == IF count = 0 THEN Append(errs, NoneExported) ELSE errs

\* lines 223-230: the channel is closed, the range loop ends, the result is returned
ExportReturn ==
    /\ xPc = "ranging" /\ vCloseCount > 0 /\ vChan = << >>
    /\ xErrs' = FinalErrs(xCount, xErrs)
    /\ xPc' = "returned"
    /\ UNCHANGED <<xCount, xOutcomes>>
    /\ UNCHANGED <<modeAVars, cacheVars, modeBVars, handleVars, gcsVars, pureVars, lookupVars>>

(* The GCP forwarder: HandleGcsBatch, getServiceName and the export group *)

\* a string field of a decoded line: ok is the outcome of the type assertion
NoField == [ok |-> FALSE, val |-> EmptyStr]
Field(v) == [ok |-> TRUE, val |-> v]

\* position of the last "/" of s at or before i, 0 when there is none
RECURSIVE LastSlash(_, _)
LastSlash(s, i) ==
    IF i = 0 THEN 0
    ELSE IF Ch(s, i) = "/" THEN i
    ELSE LastSlash(s, i - 1)

\* parts[len(parts)-1] of strings.Split(s, "/")
LastPart(s) == SubSeq(s, LastSlash(s, Len(s)) + 1, Len(s))

getServiceName(raw) ==
    IF raw.logName.ok /\ LastPart(raw.logName.val) \notin {"syslog", "activity"}
    THEN LastPart(raw.logName.val)
    ELSE IF raw.resourceType.ok THEN raw.resourceType.val
    ELSE "gcp-service-unknown"

\* the lines of the object: a line that is not JSON, and decoded lines
BadLine     == [json |-> FALSE, logName |-> NoField, resourceType |-> NoField]
RunLine     == [json |-> TRUE, logName |-> Field("projects/p/logs/run"),
                resourceType |-> NoField]
SyslogLine  == [json |-> TRUE, logName |-> Field("projects/p/logs/syslog"),
                resourceType |-> Field("gce_instance")]
BareLine    == [json |-> TRUE, logName |-> Field("activity"), resourceType |-> NoField]
GcsLines    == {BadLine, RunLine, SyslogLine, BareLine}
GcsServices == {getServiceName(l) : l \in GcsLines \ {BadLine}}

\* the errors of sendToSolarWinds and of HandleGcsBatch
TransportError == "transport"
StatusError    == "status"
Canceled       == "context canceled"
EventError     == "failed to parse event data"
OpenError      == "failed to open GCS object"
ReadError      == "error reading GCS file"

\* transformToOTLP(raw, data.Name): the record of the line at index i
GcsRecord(i) == [line |-> i]

GcsStart(lines, readErr) ==
    /\ gcsInput = lines
    /\ gcsReadErr = readErr
    /\ gcsIdx = 1
    /\ gcsPc = "start"
    /\ batches = [svc \in GcsServices |-> << >>]
    /\ exports = << >>
    /\ gcsCtxDone = FALSE
    /\ gcsErr = NilError
    /\ gcsRet = NilError

GcsInit ==
    \E lines \in SeqsUpTo(GcsLines, MaxLines), readErr \in BOOLEAN :
        GcsStart(lines, readErr)

\* no invocation
GcsIdle == GcsStart(<< >>, FALSE)

\* g.Go(func() error { return sendToSolarWinds(ctx, ..., svc, batch) })
\* late: the group's context was already cancelled at the launch
Launch(ex, svc, batch, late) ==
    Append(ex, [service |-> svc, records |-> batch, state |-> "running",
                result |-> NilError, late |-> late])

\* lines 54-56: e.DataAs fails
GcsEventFails ==
    /\ gcsPc = "start"
    /\ gcsRet' = EventError
    /\ gcsPc' = "done"
    /\ UNCHANGED <<gcsInput, gcsReadErr, gcsIdx, batches, exports, gcsCtxDone, gcsErr>>
    /\ UNCHANGED <<modeAVars, cacheVars, modeBVars, handleVars, pureVars,
                   lookupVars, exportVars>>

\* lines 58-61: NewReader fails
GcsOpenFails ==
    /\ gcsPc = "start"
    /\ gcsRet' = OpenError
    /\ gcsPc' = "done"
    /\ UNCHANGED <<gcsInput, gcsReadErr, gcsIdx, batches, exports, gcsCtxDone, gcsErr>>
    /\ UNCHANGED <<modeAVars, cacheVars, modeBVars, handleVars, pureVars,
                   lookupVars, exportVars>>

\* lines 50-71: the object is open, the group and the batches exist
GcsOpen ==
    /\ gcsPc = "start"
    /\ gcsPc' = "scanning"
    /\ UNCHANGED <<gcsInput, gcsReadErr, gcsIdx, batches, exports, gcsCtxDone, gcsErr,
                   gcsRet>>
    /\ UNCHANGED <<modeAVars, cacheVars, modeBVars, handleVars, pureVars,
                   lookupVars, exportVars>>

\* batches that keep a full sub-batch open after it was sent
AppendRecordKeep(b, svc, i) == [b EXCEPT ![svc] = Append(b[svc], GcsRecord(i))]

\* the batches after the line at index i was appended under svc (lines 81-87)
AppendRecord(b, svc, i) ==
    IF Len(b[svc]) + 1 >= BatchCap
    THEN [b EXCEPT ![svc] = << >>]
    ELSE [b EXCEPT ![svc] = Append(b[svc], GcsRecord(i))]

\* lines 73-88: one iteration of the scanner loop
GcsScan ==
    /\ gcsPc = "scanning" /\ gcsIdx <= Len(gcsInput)
    /\ gcsIdx' = gcsIdx + 1
    /\ IF ~gcsInput[gcsIdx].json
       THEN UNCHANGED <<batches, exports>>
       ELSE \E svc \in {getServiceName(gcsInput[gcsIdx])} :
              /\ batches' = AppendRecord(batches, svc, gcsIdx)
              /\ exports' = IF Len(batches[svc]) + 1 >= BatchCap
                            THEN Launch(exports, svc, Append(batches[svc], GcsRecord(gcsIdx)),
                                        gcsCtxDone)
                            ELSE exports
    /\ UNCHANGED <<gcsInput, gcsReadErr, gcsPc, gcsCtxDone, gcsErr, gcsRet>>
    /\ UNCHANGED <<modeAVars, cacheVars, modeBVars, handleVars, pureVars,
                   lookupVars, exportVars>>

\* lines 90-92: scanner.Err() is non-nil; the return does not wait for the group
GcsReadFails ==
    /\ gcsPc = "scanning" /\ gcsIdx > Len(gcsInput) /\ gcsReadErr
    /\ gcsRet' = ReadError
    /\ gcsPc' = "done"
    /\ UNCHANGED <<gcsInput, gcsReadErr, gcsIdx, batches, exports, gcsCtxDone, gcsErr>>
    /\ UNCHANGED <<modeAVars, cacheVars, modeBVars, handleVars, pureVars,
                   lookupVars, exportVars>>

\* the services the flush loop has still to visit
Unflushed ==
    {svc \in GcsServices :
        /\ Len(batches[svc]) > 0
        /\ \A k \in 1..Len(exports) : exports[k].records # batches[svc]}

\* lines 90-94: end of input without error, the flush loop starts
GcsEof ==
    /\ gcsPc = "scanning" /\ gcsIdx > Len(gcsInput) /\ ~gcsReadErr
    /\ gcsPc' = "flushing"
    /\ UNCHANGED <<gcsInput, gcsReadErr, gcsIdx, batches, exports, gcsCtxDone, gcsErr,
                   gcsRet>>
    /\ UNCHANGED <<modeAVars, cacheVars, modeBVars, handleVars, pureVars,
                   lookupVars, exportVars>>

\* lines 94-99: one iteration of the flush loop with a non-empty batch; the map
\* is ranged over in any order
GcsFlush ==
    /\ gcsPc = "flushing"
    /\ \E svc \in Unflushed : exports' = Launch(exports, svc, batches[svc], gcsCtxDone)
    /\ UNCHANGED <<gcsInput, gcsReadErr, gcsIdx, gcsPc, batches, gcsCtxDone, gcsErr,
                   gcsRet>>
    /\ UNCHANGED <<modeAVars, cacheVars, modeBVars, handleVars, pureVars,
                   lookupVars, exportVars>>

\* line 101: the flush loop is over, g.Wait() is entered
GcsWait ==
    /\ gcsPc = "flushing" /\ Unflushed = {}
    /\ gcsPc' = "waiting"
    /\ UNCHANGED <<gcsInput, gcsReadErr, gcsIdx, batches, exports, gcsCtxDone, gcsErr,
                   gcsRet>>
    /\ UNCHANGED <<modeAVars, cacheVars, modeBVars, handleVars, pureVars,
                   lookupVars, exportVars>>

\* the results sendToSolarWinds can return (lines 158-171): the request carries
\* the group's context, so httpClient.Do fails with the context's error when
\* the context was cancelled before the call, and may fail with it when the
\* context is cancelled while the request is in flight
SendOutcomes(late, cancelled) ==
    IF late THEN {Canceled}
    ELSE IF cancelled THEN {Canceled, NilError, TransportError, StatusError}
    ELSE {NilError, TransportError, StatusError}

\* the group after one of its functions returned e: the first error is kept
\* and cancels the context
GroupErr(cur, e) == IF cur = NilError THEN e ELSE cur

\* lines 131-173 and the errgroup: the export at index k returns
ExportReturns(k) ==
    /\ k \in 1..Len(exports) /\ exports[k].state = "running"
    /\ \E e \in SendOutcomes(exports[k].late, gcsCtxDone) :
          /\ exports' = [exports EXCEPT ![k] = [@ EXCEPT !.state = "done", !.result = e]]
          /\ gcsErr' = GroupErr(gcsErr, e)
          /\ gcsCtxDone' = (gcsCtxDone \/ e # NilError)
    /\ UNCHANGED <<gcsInput, gcsReadErr, gcsIdx, gcsPc, batches, gcsRet>>
    /\ UNCHANGED <<modeAVars, cacheVars, modeBVars, handleVars, pureVars,
                   lookupVars, exportVars>>

GcsExportReturns == \E k \in 1..MaxLines : ExportReturns(k)

\* line 101: every function of the group has returned; g.Wait() returns
GcsReturn ==
    /\ gcsPc = "waiting"
    /\ \A k \in 1..Len(exports) : exports[k].state = "done"
    /\ gcsRet' = gcsErr
    /\ gcsCtxDone' = TRUE
    /\ gcsPc' = "done"
    /\ UNCHANGED <<gcsInput, gcsReadErr, gcsIdx, batches, exports, gcsErr>>
    /\ UNCHANGED <<modeAVars, cacheVars, modeBVars, handleVars, pureVars,
                   lookupVars, exportVars>>

----------------------------------------------------------------------------
(* Evaluation of single functions: the arguments, then the result *)

PureIdle ==
    /\ pIn = << >>
    /\ pOut = << >>
    /\ pDone = FALSE

\* every other part of the model is idle
OthersIdle ==
    ModeAIdle /\ CacheInit /\ ModeBIdle /\ HandleIdle /\ GcsIdle /\ LookupIdle /\ ExportIdle

----------------------------------------------------------------------------
(* The flow-log parsers on their own.  pIn is the message and the format,   *)
(* pOut the record and the error returned, pDone the parser applied.        *)

\* the elements of the sequence of strings ss from index i on, separated by sep
RECURSIVE JoinFrom(_, _, _)
JoinFrom(ss, i, sep) ==
    IF i > Len(ss) THEN EmptyStr
    ELSE IF i = Len(ss) THEN ss[i]
    ELSE ss[i] \o sep \o JoinFrom(ss, i + 1, sep)
Join(ss, sep) == JoinFrom(ss, 1, sep)

\* the field names under the raw fields of a format
CleanFields(rawFields) == [i \in 1..Len(rawFields) |-> CleanField(rawFields[i])]

\* the format string that lists the field names
FormatOf(names) == Join([i \in 1..Len(names) |-> "${" \o names[i] \o "}"], " ")

\* formats that contain every default field: another order, additional
\* fields, names without the ${} markup, a field listed twice
FmtReordered ==
    FormatOf(<<"start", "end", "version", "account-id", "interface-id", "bytes", "packets",
               "srcaddr", "dstaddr", "srcport", "dstport", "protocol", "action",
               "log-status">>)
FmtExtras    == FormatOf(V2DefaultFieldNames \o <<"vpc-id", "subnet-id">>)
FmtBare      == Join(V2DefaultFieldNames, " ")
FmtTwice     == FormatOf(V2DefaultFieldNames \o <<"version">>)
CompleteFormats ==
    {VpcFlowLogsDefaultFormatString, FmtReordered, FmtExtras, FmtBare, FmtTwice}

\* the default names without the names in out
Without(out) ==
    SelectSeq(V2DefaultFieldNames, LAMBDA n : n \notin out)

\* formats that omit default fields
FmtNoAccount   == FormatOf(Without({"account-id"}))
FmtNoVersion   == FormatOf(Without({"version"}))
FmtNoStartEnd  == FormatOf(Without({"start", "end"}) \o <<"vpc-id">>)
FmtNoLogStatus == FormatOf(Without({"log-status"}))
PartialFormats == {FmtNoAccount, FmtNoVersion, FmtNoStartEnd, FmtNoLogStatus, ShortFormat}

ParseFormats == CompleteFormats \cup PartialFormats

\* the values of a well-formed record, and the other values the inputs use
BaseValues ==
    [FlowLogRecord EXCEPT
        !["version"] = "2", !["account-id"] = "123456789012", !["interface-id"] = "eni-1",
        !["srcaddr"] = "10.0.0.1", !["dstaddr"] = "10.0.0.2", !["srcport"] = "443",
        !["dstport"] = "80", !["protocol"] = "6", !["packets"] = "10", !["bytes"] = "840",
        !["start"] = "1", !["end"] = "2", !["action"] = "ACCEPT", !["log-status"] = "OK",
        !["vpc-id"] = "vpc-1", !["subnet-id"] = "subnet-1"]

OtherValues(tag) ==
    CASE tag = "version"    -> {"1", "5", "11", "x"}
      [] tag = "account-id" -> {"12345", "12345678901a"}
      [] tag = "packets"    -> {"-1", "zz"}
      [] tag = "start"      -> {"3"}
      [] tag = "action"     -> {"REJECT", "DROP"}
      [] tag = "log-status" -> {"SKIPDATA", "BAD"}
      [] OTHER              -> {}

VariedTags == {"version", "account-id", "packets", "start", "action", "log-status"}

\* the base values with at most two of them replaced
ValueTuples ==
    {BaseValues}
    \cup {[BaseValues EXCEPT ![t] = v] : <<t, v>> \in
             UNION {{<<t, v>> : v \in OtherValues(t)} : t \in VariedTags}}
    \cup {[BaseValues EXCEPT ![c[1]] = c[2], ![c[3]] = c[4]] : c \in
             UNION {{<<t, v, u, w>> : v \in OtherValues(t), w \in OtherValues(u)} :
                    <<t, u>> \in {"version"} \X (VariedTags \ {"version"})}}

\* the line that carries the values under the fields of the format, the
\* fields separated by sep
ValuesUnder(names, values) == [i \in 1..Len(names) |-> values[names[i]]]
LineFor(format, values, sep) ==
    Join(ValuesUnder(CleanFields(Fields(format)), values), sep)

\* the messages: each tuple of values written under each layout, and lines
\* with other separators, and the empty line
ParseMessages ==
    {LineFor(layout, v, " ") : layout \in ParseFormats, v \in ValueTuples}
    \cup {LineFor(layout, BaseValues, "\t ") : layout \in ParseFormats}
    \cup {EmptyStr, " " \o LineFor(VpcFlowLogsDefaultFormatString, BaseValues, "  ") \o " "}

ParseInit ==
    /\ pIn \in [message : ParseMessages, format : ParseFormats]
    /\ pOut = << >>
    /\ pDone = "none"

\* h.parseFlowLogRecordDefault(message)
ApplyParseDefault ==
    /\ pDone = "none"
    /\ pOut' = parseFlowLogRecordDefault(pIn.message)
    /\ pDone' = "default"
    /\ UNCHANGED pIn
    /\ UNCHANGED <<modeAVars, cacheVars, modeBVars, handleVars, gcsVars,
                   lookupVars, exportVars>>

\* h.parseFlowLogRecordCustom(message, format)
ApplyParseCustom ==
    /\ pDone = "none"
    /\ pOut' = parseFlowLogRecordCustom(pIn.message, pIn.format)
    /\ pDone' = "custom"
    /\ UNCHANGED pIn
    /\ UNCHANGED <<modeAVars, cacheVars, modeBVars, handleVars, gcsVars,
                   lookupVars, exportVars>>

----------------------------------------------------------------------------
(* validateFlowLogRecord on its own, with a nil presence map.  pIn is the   *)
(* record, pOut the error returned.                                         *)

\* a record that passes every check
BaseRecord ==
    [FlowLogRecord EXCEPT
        !["version"] = "2", !["account-id"] = "123456789012", !["interface-id"] = "eni-1",
        !["srcaddr"] = "10.0.0.1", !["dstaddr"] = "10.0.0.2", !["srcport"] = "443",
        !["dstport"] = "80", !["protocol"] = "6", !["packets"] = 10, !["bytes"] = 840,
        !["start"] = 1, !["end"] = 2, !["action"] = "ACCEPT", !["log-status"] = "OK"]

\* the other values of a field the records use
OtherFieldValues(tag) ==
    CASE tag = "account-id" -> {"", "12345", "12345678901a", "1234567890123"}
      [] tag = "action"     -> {"", "REJECT", "DROP", "accept"}
      [] tag = "log-status" -> {"", "NODATA", "SKIPDATA", "BAD"}
      [] tag = "packets"    -> {0, -1}
      [] tag = "bytes"      -> {-1}
      [] tag = "start"      -> {-1, 2, 3}
      [] tag = "end"        -> {-1, 0}
      [] OTHER              -> {""}

\* a field and another value of it
Changes == UNION {{<<t, v>> : v \in OtherFieldValues(t)} : t \in DefaultNames}

\* the base record with at most two fields changed
ValidateRecords ==
    {BaseRecord}
    \cup {[BaseRecord EXCEPT ![c[1]] = c[2]] : c \in Changes}
    \cup {[BaseRecord EXCEPT ![c[1]] = c[2], ![d[1]] = d[2]] : c \in Changes, d \in Changes}

ValidateInit ==
    /\ pIn \in [record : ValidateRecords]
    /\ pOut = << >>
    /\ pDone = "none"

\* h.validateFlowLogRecord(record, nil)
ApplyValidate ==
    /\ pDone = "none"
    /\ pOut' = validateFlowLogRecord(pIn.record, NilPresence)
    /\ pDone' = "validate"
    /\ UNCHANGED pIn
    /\ UNCHANGED <<modeAVars, cacheVars, modeBVars, handleVars, gcsVars,
                   lookupVars, exportVars>>

----------------------------------------------------------------------------
(* parseMessage on its own.  pIn is the message, pOut the result.           *)

\* the paths the shape tests look at
ShapePaths ==
    {"eventSource", "eventVersion", "requestParameters.instancesSet",
     "responseElements.instancesSet", "ec2_instance_id", "kubernetes.host",
     "kubernetes.namespace_name", "InstanceId", "AutoScalingGroupName"}

\* the paths of the inputs whose value may have another type than the struct's
MistypedPaths == {"eventSource", "ec2_instance_id", "kubernetes.host", "InstanceId"}

\* a JSON object with the given paths; the value of eventSource is src unless
\* it is not a string
ObjectMsg(paths, mistyped, src) ==
    [BaseMsg EXCEPT !.text = "object", !.paths = paths, !.mistyped = mistyped,
                    !.eventSource = IF "eventSource" \in paths \ mistyped THEN src ELSE ""]

\* the inputs: a text that is not a JSON object, and the objects with any of
\* the shape paths, of which any may be mistyped
ClassifyMessages ==
    {PlainMsg}
    \cup {ObjectMsg(ps, ms, src) : <<ps, ms, src>> \in
             UNION {{<<ps, ms, src>> : ms \in SUBSET (ps \cap MistypedPaths),
                                      src \in {"ec2.amazonaws.com", "s3.amazonaws.com"}} :
                    ps \in SUBSET ShapePaths}}

ClassifyInit ==
    /\ pIn \in [message : ClassifyMessages]
    /\ pOut = << >>
    /\ pDone = "none"

\* parseMessage(message)
ApplyParseMessage ==
    /\ pDone = "none"
    /\ pOut' = parseMessage(pIn.message)
    /\ pDone' = "parseMessage"
    /\ UNCHANGED pIn
    /\ UNCHANGED <<modeAVars, cacheVars, modeBVars, handleVars, gcsVars,
                   lookupVars, exportVars>>

----------------------------------------------------------------------------
(* extractEC2InstanceId on its own.  pIn is the event, pOut the result.     *)

\* the instanceId values of the items of an instancesSet
ItemLists == SeqsUpTo({EmptyStr, IdA, IdB}, MaxItems)

ExtractInit ==
    /\ pIn \in {[event |-> Ec2Msg("ec2", req, resp)] : req \in ItemLists, resp \in ItemLists}
    /\ pOut = << >>
    /\ pDone = "none"

\* extractEC2InstanceId(ec2Event)
ApplyExtract ==
    /\ pDone = "none"
    /\ pOut' = extractEC2InstanceId(pIn.event)
    /\ pDone' = "extractEC2InstanceId"
    /\ UNCHANGED pIn
    /\ UNCHANGED <<modeAVars, cacheVars, modeBVars, handleVars, gcsVars,
                   lookupVars, exportVars>>

----------------------------------------------------------------------------
(* The application log event on its own.  pIn is the message and the        *)
(* builder the loop holds, pOut what the methods of the event return and    *)
(* what the host-id step of the loop does with it.                          *)

\* the values of kubernetes.host: a prefix, an instance name, a region and a tail
HostPrefixes  == {"", "fargate-", "x", "i-fargate-"}
HostInstances == {"", "i-0a1", "ip-10-0-0-7", "i-", "a-1"}
HostRegions   == {"", "us-east-2", "eu"}
HostTails     == {"", ".", ".compute.internal"}
AppLogHosts ==
    {p \o i \o d \o r \o t : <<p, i, d, r, t>> \in
        HostPrefixes \X HostInstances \X {"", "."} \X HostRegions \X HostTails}

\* the builder of the loop: without a host id, and with one
AppLogBuilders == {FreshBuilder(StreamPlain), SetHostId(FreshBuilder(StreamPlain), IdA)}

AppLogInit ==
    /\ pIn \in [message : {AppLogMsg("app", h, "pod-1", "uid-1", "php-app") : h \in AppLogHosts},
                rb : AppLogBuilders]
    /\ pOut = << >>
    /\ pDone = "none"

\* parseMessage(message), then getInstanceId, getRegion, getEventType and
\* lines 661-673 of transformLogEvents on the event returned
ApplyAppLog ==
    /\ pDone = "none"
    /\ \E e \in {parseMessage(pIn.message)} :
          pOut' = [kind |-> e.kind, instanceId |-> getInstanceId(e), region |-> getRegion(e),
                   eventType |-> getEventType(e),
                   hostStep |-> HostTransition(pIn.rb, e, StreamPlain)]
    /\ pDone' = "appLog"
    /\ UNCHANGED pIn
    /\ UNCHANGED <<modeAVars, cacheVars, modeBVars, handleVars, gcsVars,
                   lookupVars, exportVars>>

----------------------------------------------------------------------------

(* sanitizeAttributeValue on its own.  A Go string is its sequence of       *)
(* bytes.  pIn is the value and the maximum length, pOut the results of the *)
(* calls made so far: on the value, then on the result of the first call.   *)

RuneError == 65533              \* U+FFFD, what an invalid byte decodes to

\* the bytes b with lo <= b <= hi
InRange(b, lo, hi) == lo <= b /\ b <= hi

\* the second byte a three-byte lead accepts (the table of unicode/utf8)
SecondLo(b0) == IF b0 = 224 THEN 160 ELSE 128
SecondHi(b0) == IF b0 = 237 THEN 159 ELSE 191

\* for _, r := range value: the rune at byte i and the bytes it takes; a byte
\* that starts no valid encoding yields RuneError and takes one byte.  Lead
\* bytes of four-byte encodings do not occur in the strings of the model.
DecodeRune(s, i) ==
    IF s[i] < 128 THEN [rune |-> s[i], width |-> 1]
    ELSE IF InRange(s[i], 194, 223) /\ i + 1 <= Len(s) /\ InRange(s[i + 1], 128, 191)
    THEN [rune |-> (s[i] - 192) * 64 + (s[i + 1] - 128), width |-> 2]
    ELSE IF InRange(s[i], 224, 239) /\ i + 2 <= Len(s)
            /\ InRange(s[i + 1], SecondLo(s[i]), SecondHi(s[i]))
            /\ InRange(s[i + 2], 128, 191)
    THEN [rune |-> (s[i] - 224) * 4096 + (s[i + 1] - 128) * 64 + (s[i + 2] - 128),
          width |-> 3]
    ELSE [rune |-> RuneError, width |-> 1]

\* string(r): the UTF-8 encoding of a rune below U+10000
EncodeRune(r) ==
    IF r < 128 THEN <<r>>
    ELSE IF r < 2048 THEN <<192 + (r \div 64), 128 + (r % 64)>>
    ELSE <<224 + (r \div 4096), 128 + ((r \div 64) % 64), 128 + (r % 64)>>

\* unicode.IsPrint: below U+0100 the letters, marks, numbers, punctuation,
\* symbols and the ASCII space of Latin-1; above, U+FFFD (a symbol) is the only
\* code point the strings of the model can hold
IsPrint(r) ==
    IF r <= 255 THEN InRange(r, 32, 126) \/ (InRange(r, 161, 255) /\ r # 173)
    ELSE r = RuneError

\* a sanitizer that keeps every rune
IsPrintAnything(r) == TRUE

\* lines 127-132: the printable runes of value[i..], encoded
RECURSIVE SanitizedFrom(_, _)
KeepPrintable(d, s, i) ==
    (IF IsPrint(d.rune) THEN EncodeRune(d.rune) ELSE << >>) \o SanitizedFrom(s, i + d.width)

SanitizedFrom(s, i) ==
    IF i > Len(s) THEN << >> ELSE KeepPrintable(DecodeRune(s, i), s, i)

\* lines 135-138: len counts bytes and the slice cuts at a byte
TruncateBytes(s, maxLength) == IF Len(s) > maxLength THEN SubSeq(s, 1, maxLength) ELSE s

sanitizeAttributeValue(value, maxLength) == TruncateBytes(SanitizedFrom(value, 1), maxLength)

\* the bytes of the values: "A", the control character BEL, and the two bytes
\* of U+00E9
ValueBytes == {65, 7, 195, 169}
MaxBytes == 4

SanitizeInit ==
    /\ pIn \in [value : SeqsUpTo(ValueBytes, MaxBytes), maxLength : 0..MaxBytes]
    /\ pOut = << >>
    /\ pDone = "none"

\* sanitizeAttributeValue(value, maxLength)
ApplySanitize ==
    /\ pDone = "none"
    /\ pOut' = <<sanitizeAttributeValue(pIn.value, pIn.maxLength)>>
    /\ pDone' = "sanitized"
    /\ UNCHANGED pIn
    /\ UNCHANGED <<modeAVars, cacheVars, modeBVars, handleVars, gcsVars,
                   lookupVars, exportVars>>

\* sanitizeAttributeValue(sanitizeAttributeValue(value, maxLength), maxLength)
ApplySanitizeAgain ==
    /\ pDone = "sanitized"
    /\ pOut' = Append(pOut, sanitizeAttributeValue(pOut[1], pIn.maxLength))
    /\ pDone' = "sanitized twice"
    /\ UNCHANGED pIn
    /\ UNCHANGED <<modeAVars, cacheVars, modeBVars, handleVars, gcsVars,
                   lookupVars, exportVars>>

----------------------------------------------------------------------------

(* The request builder on its own: any sequence of its operations.  pIn is  *)
(* the sequence of the calls made (operation and argument), pOut the        *)
(* builder, pDone the payloads GetLogs returned.                            *)

OtherAccount  == "210987654321"
OtherLogGroup == "other-group"

BuilderInit ==
    /\ pIn = << >>
    /\ pOut = NewOtlpRequestBuilder
    /\ pDone = << >>

\* one call of a builder method that returns the builder
BuilderCall(name, arg, rb) ==
    /\ Len(pIn) < MaxOps
    /\ pIn' = Append(pIn, [op |-> name, arg |-> arg])
    /\ pOut' = rb
    /\ UNCHANGED pDone
    /\ UNCHANGED <<modeAVars, cacheVars, modeBVars, handleVars, gcsVars,
                   lookupVars, exportVars>>

BuilderSetHostId       ==
    \E h \in {EmptyStr, IdA} : BuilderCall("SetHostId", h, SetHostId(pOut, h))
BuilderSetCloudAccount ==
    \E a \in {Account, OtherAccount} :
        BuilderCall("SetCloudAccount", a, SetCloudAccount(pOut, a))
BuilderSetLogGroup     ==
    \E g \in {LogGroup, OtherLogGroup} : BuilderCall("SetLogGroup", g, SetLogGroup(pOut, g))
BuilderSetLogStream    ==
    \E st \in {StreamPlain, StreamHost} :
        BuilderCall("SetLogStream", st, SetLogStream(pOut, st))
BuilderAddLogEntry     ==
    \E region \in {EmptyStr, RegionEU} :
        BuilderCall("AddLogEntry", region,
                    AddLogEntry(pOut, Len(pIn) + 1, 0, "Hello, World", region, EmptyMap))

\* GetLogs returns the payload and leaves cloud.provider on the resource
BuilderGetLogs ==
    /\ Len(pIn) < MaxOps
    /\ pIn' = Append(pIn, [op |-> "GetLogs", arg |-> EmptyStr])
    /\ pOut' = StampProvider(pOut)
    /\ pDone' = Append(pDone, GetLogs(pOut))
    /\ UNCHANGED <<modeAVars, cacheVars, modeBVars, handleVars, gcsVars,
                   lookupVars, exportVars>>

----------------------------------------------------------------------------
(* Specifications *)

NextA == TransformStep \/ TransformFinish \/ TransformClose \/ Receive \/ RangeEnd

\* Mode A: every input of at most MaxEvents log events
InitA == ModeAInit /\ CacheInit /\ ModeBIdle /\ HandleIdle /\ GcsIdle /\ PureIdle
    /\ LookupIdle /\ ExportIdle
SpecA == InitA /\ [][NextA]_vars

\* Mode A where the transformer goroutine keeps running and the consumer keeps receiving
\* The loop body is total, so TransformStep is enabled exactly when TransformStepReady
\* holds; its weak fairness is written out with that enabling condition.
TransformStepFair == []<>(~TransformStepReady) \/ []<><<TransformStep>>_vars
InitAFair == ModeAInitTermination /\ CacheInit /\ ModeBIdle /\ HandleIdle /\ GcsIdle /\ PureIdle
    /\ LookupIdle /\ ExportIdle
SpecAFair ==
    /\ InitAFair /\ [][NextA]_vars
    /\ TransformStepFair
    /\ WF_vars(TransformFinish) /\ WF_vars(TransformClose)
    /\ WF_vars(Receive) /\ WF_vars(RangeEnd)

NextCache ==
    \/ \E g \in Goroutines :
          \/ StartGet(g) \/ GetRLock(g) \/ GetMissRUnlock(g) \/ GetExpiredRUnlock(g)
          \/ GetLock(g) \/ GetUnlock(g) \/ GetHitRUnlock(g)
          \/ StartSet(g) \/ SetLock(g) \/ SetUnlock(g)
    \/ Tick

\* the format cache under concurrent get / set calls
InitCache == ModeAIdle /\ CacheInit /\ ModeBIdle /\ HandleIdle /\ GcsIdle /\ PureIdle
    /\ LookupIdle /\ ExportIdle
SpecCache == InitCache /\ [][NextCache]_vars

\* the steps of a call goroutine g has started
CallStep(g) ==
    \/ GetRLock(g) \/ GetMissRUnlock(g) \/ GetExpiredRUnlock(g) \/ GetLock(g)
    \/ GetUnlock(g) \/ GetHitRUnlock(g) \/ SetLock(g) \/ SetUnlock(g)

\* the format cache where every goroutine that can run eventually does
SpecCacheFair ==
    InitCache /\ [][NextCache]_vars /\ \A g \in Goroutines : WF_vars(CallStep(g))

NextB ==
    \/ FormatLookup \/ ObserveCancel \/ ProcessRecord \/ InputExhausted \/ CloseOutput
    \/ ReceiveMetrics \/ Cancel

\* Mode B: every input of at most MaxRecords flow-log records
InitB == ModeAIdle /\ CacheInit /\ ModeBInit /\ HandleIdle /\ GcsIdle /\ PureIdle
    /\ LookupIdle /\ ExportIdle
SpecB == InitB /\ [][NextB]_vars

\* Mode B where a return always runs the deferred close
SpecBFair == InitB /\ [][NextB]_vars /\ WF_vars(CloseOutput)

\* Mode A on inputs of every kind of event that carries an instance id
InitAHosts == ModeAInitHosts /\ CacheInit /\ ModeBIdle /\ HandleIdle /\ GcsIdle /\ PureIdle
    /\ LookupIdle /\ ExportIdle
SpecAHosts == InitAHosts /\ [][NextA]_vars

\* one handler over consecutive invocations: the cached format lookup, then
\* TransformVpcFlowLogs and its consumer
NextLookup ==
    \/ LookupGet \/ ProviderSucceeds \/ ProviderFails \/ LookupFormat
    \/ ProcessRecord \/ InputExhausted \/ CloseOutput \/ ReceiveMetrics
    \/ NextRun \/ Tick
InitLookup ==
    ModeAIdle /\ CacheInit /\ LookupInit /\ HandleIdle /\ GcsIdle /\ PureIdle /\ ExportIdle
SpecLookup == InitLookup /\ [][NextLookup]_vars

\* ProcessAndExportVpcFlowLogs: the transformer goroutine and the export loop
NextExport ==
    \/ FormatLookup \/ ObserveCancel \/ ProcessRecord \/ InputExhausted \/ CloseOutput
    \/ Cancel \/ ExportMetrics \/ ExportReturn
InitExport ==
    ModeAIdle /\ CacheInit /\ ExportInit /\ HandleIdle /\ GcsIdle /\ PureIdle /\ LookupIdle
SpecExport == InitExport /\ [][NextExport]_vars

\* handleEvent, logs branch: the transformer goroutine and the export loop
NextHandle ==
    \/ ParseFails \/ DialFails \/ StartTransform
    \/ TransformStep \/ TransformFinish \/ TransformClose
    \/ ReceiveExport \/ HandleReturn
InitHandle == HandleInit /\ CacheInit /\ ModeBIdle /\ GcsIdle /\ PureIdle
    /\ LookupIdle /\ ExportIdle
SpecHandle == InitHandle /\ [][NextHandle]_vars

\* the two flow-log parsers applied to a message and a format
NextParse == ApplyParseDefault \/ ApplyParseCustom
InitParse == OthersIdle /\ ParseInit
SpecParse == InitParse /\ [][NextParse]_vars

\* validateFlowLogRecord applied to a record
NextValidate == ApplyValidate
InitValidate == OthersIdle /\ ValidateInit
SpecValidate == InitValidate /\ [][NextValidate]_vars

\* parseMessage applied to a message
NextClassify == ApplyParseMessage
InitClassify == OthersIdle /\ ClassifyInit
SpecClassify == InitClassify /\ [][NextClassify]_vars

\* extractEC2InstanceId applied to an EC2 audit event
NextExtract == ApplyExtract
InitExtract == OthersIdle /\ ExtractInit
SpecExtract == InitExtract /\ [][NextExtract]_vars

\* the methods of cloudInsightsAppLog applied to an application log
NextAppLog == ApplyAppLog
InitAppLog == OthersIdle /\ AppLogInit
SpecAppLog == InitAppLog /\ [][NextAppLog]_vars

\* sanitizeAttributeValue applied to a value, and to its own result
NextSanitize == ApplySanitize \/ ApplySanitizeAgain
InitSanitize == OthersIdle /\ SanitizeInit
SpecSanitize == InitSanitize /\ [][NextSanitize]_vars

\* the request builder under any sequence of its operations
NextBuilder ==
    \/ BuilderSetHostId \/ BuilderSetCloudAccount \/ BuilderSetLogGroup
    \/ BuilderSetLogStream \/ BuilderAddLogEntry \/ BuilderGetLogs
InitBuilder == OthersIdle /\ BuilderInit
SpecBuilder == InitBuilder /\ [][NextBuilder]_vars

\* HandleGcsBatch: the scanner loop, the flush loop and the export goroutines
NextGcs ==
    \/ GcsEventFails \/ GcsOpenFails \/ GcsOpen
    \/ GcsScan \/ GcsReadFails \/ GcsEof \/ GcsFlush \/ GcsWait
    \/ GcsExportReturns \/ GcsReturn
InitGcs == ModeAIdle /\ CacheInit /\ ModeBIdle /\ HandleIdle /\ GcsInit /\ PureIdle
    /\ LookupIdle /\ ExportIdle
SpecGcs == InitGcs /\ [][NextGcs]_vars

----------------------------------------------------------------------------
(* Properties of Mode A *)

InputMessages == [i \in 1..Len(input) |-> input[i].Message]
InputTexts    == [i \in 1..Len(input) |-> input[i].Message.text]
ModeADone     == tpc = "done" /\ cpc = "done"

\* the builder transformLogEvents starts with has no host-id
NoHostIdAtStart == ~HasHostId(FreshBuilder(logStream))

Ec2Messages     == {m \in Messages : parseMessage(m).kind = "ec2CloudTrailEvent"}
FargateMessages == {m \in Messages : parseMessage(m).ok
                                      /\ getEventType(parseMessage(m)) = fargateEvent}
IdOf(m) == extractEC2InstanceId(m).id

HostIdOf(payload) ==
    IF Has(payload.attrs, "host.id") THEN payload.attrs["host.id"] ELSE EmptyStr
Bodies(payload) == [i \in 1..Len(payload.records) |-> payload.records[i].body]
Names(payload)  == {payload.records[i].name : i \in 1..Len(payload.records)}
OneResourceOneScope(payload) == payload.nResources = 1 /\ payload.nScopes = 1

\* what the for loop has sent and the builder it holds after the first n items
AfterItem(prev, r) == [out |-> prev.out \o r.out, rb |-> r.rb]
RECURSIVE Replay(_)
Replay(n) ==
    IF n = 0 THEN [out |-> << >>, rb |-> FreshBuilder(logStream)]
    ELSE AfterItem(Replay(n - 1),
                   TransformItem(Replay(n - 1).rb, input[n], logStream, lambdaRegion))
BuilderBefore(i) == Replay(i - 1).rb

\* the input is the three events x, y, z in that order
InputIs(x, y, z) == Len(input) = 3 /\ InputMessages = <<x, y, z>>

\* C1 as stated: from a builder with no host-id, an EC2 event with id A, an EC2
\* event with id B # A and a plain-text event yield exactly two payloads, the
\* first with 1 record and host.id = A, the second with 2 records and host.id = B.
C1_TwoPayloads ==
    \A x, y \in Ec2Messages :
        (ModeADone /\ NoHostIdAtStart /\ IdOf(x) # IdOf(y) /\ InputIs(x, y, PlainMsg))
        => /\ Len(received) = 2
           /\ Len(received[1].records) = 1 /\ HostIdOf(received[1]) = IdOf(x)
           /\ Len(received[2].records) = 2 /\ HostIdOf(received[2]) = IdOf(y)

\* C1 (amended): from a builder with no host-id, an EC2 event with id A, an EC2
\* event with id B # A and a plain-text event yield exactly three payloads when B
\* is not the log stream name: 1 record with host.id = A, 1 record with
\* host.id = B, and the plain record alone with no host.id. Only when B equals
\* the log stream name are there two payloads, the second with both records.
C1_ThreePayloads ==
    \A x, y \in Ec2Messages :
        (ModeADone /\ NoHostIdAtStart /\ IdOf(x) # IdOf(y) /\ InputIs(x, y, PlainMsg))
        => IF IdOf(y) # logStream
           THEN /\ Len(received) = 3
                /\ Bodies(received[1]) = <<x.text>> /\ HostIdOf(received[1]) = IdOf(x)
                /\ Bodies(received[2]) = <<y.text>> /\ HostIdOf(received[2]) = IdOf(y)
                /\ Bodies(received[3]) = <<PlainMsg.text>>
                /\ ~Has(received[3].attrs, "host.id")
           ELSE /\ Len(received) = 2
                /\ Bodies(received[1]) = <<x.text>> /\ HostIdOf(received[1]) = IdOf(x)
                /\ Bodies(received[2]) = <<y.text, PlainMsg.text>>
                /\ HostIdOf(received[2]) = IdOf(y)

C1_Witness ==
    /\ ModeADone /\ logStream = StreamPlain
    /\ InputTexts = <<"ec2-a", "ec2-b", "Hello, World">>
    /\ Len(received) = 3

\* the item at index i is unclassified and arrives while the builder holds a
\* host-id that is not the log stream name
UnclassifiedUnderOtherHost(rb, i) ==
    /\ ~parseMessage(input[i].Message).ok
    /\ HasHostId(rb) /\ ~MatchHostId(rb, logStream)

C3_OnePayloadOfThree ==
    \A x \in Ec2Messages :
        (ModeADone /\ NoHostIdAtStart /\ InputIs(PlainMsg, x, PlainMsg))
        => \E j \in 1..Len(received) :
              /\ Len(received[j].records) = 3 /\ OneResourceOneScope(received[j])
              /\ HostIdOf(received[j]) = IdOf(x)
              /\ Has(received[j].attrs, "cloud.platform")
              /\ received[j].attrs["cloud.platform"] = CloudPlatformAWSEC2

\* C3 (amended): from a builder with no host-id, a plain-text event, an EC2 audit
\* event with id I and another plain-text event produce, when I is not the log
\* stream name, two payloads: the first with the first two records in one
\* resource and scope, host.id = I and the EC2 cloud.platform, the second with
\* the last record alone and no host.id. Only when I equals the log stream name
\* is there one payload with all 3 records, host.id = I and the EC2 cloud.platform.
C3_TwoPayloads ==
    \A x \in Ec2Messages :
        (ModeADone /\ NoHostIdAtStart /\ InputIs(PlainMsg, x, PlainMsg))
        => /\ Len(received) >= 1
           /\ OneResourceOneScope(received[1])
           /\ HostIdOf(received[1]) = IdOf(x)
           /\ Has(received[1].attrs, "cloud.platform")
           /\ received[1].attrs["cloud.platform"] = CloudPlatformAWSEC2
           /\ IF IdOf(x) # logStream
              THEN /\ Len(received) = 2
                   /\ Bodies(received[1]) = <<PlainMsg.text, x.text>>
                   /\ Bodies(received[2]) = <<PlainMsg.text>>
                   /\ OneResourceOneScope(received[2])
                   /\ ~Has(received[2].attrs, "host.id")
              ELSE /\ Len(received) = 1
                   /\ Bodies(received[1]) = <<PlainMsg.text, x.text, PlainMsg.text>>

C3_Witness ==
    /\ ModeADone /\ logStream = StreamRegion
    /\ InputTexts = <<"Hello, World", "ec2-a", "Hello, World">>
    /\ Len(received) = 2

\* the container identity a Fargate app log carries, and the one set on a builder
IdentityOf(m) ==
    <<m.clusterUid, m.kubernetes.namespace_name, m.kubernetes.pod_name,
      m.kubernetes.container_name>>
IdentityOn(rb) ==
    <<rb.attrs["sw.k8s.cluster.uid"], rb.attrs["k8s.namespace.name"],
      rb.attrs["k8s.pod.name"], rb.attrs["k8s.container.name"]>>

\* C4: on a Fargate app log the step emits the current payload and restarts the
\* builder exactly when the builder already has a container identity and the
\* log's (clusterUid, namespace, pod, container) differs from it; a log with the
\* same identity is added to the same builder without emitting, and the first
\* Fargate log only sets the Kubernetes attributes without emitting.
C4_EmitIffIdentityDiffers ==
    [][ (tpc = "loop" /\ idx <= Len(input) /\ idx' = idx + 1
         /\ input[idx].Message \in FargateMessages)
        => IF HasContainerName(reqBuilder)
              /\ IdentityOn(reqBuilder) # IdentityOf(input[idx].Message)
           THEN /\ chan' = <<GetLogs(reqBuilder)>>
                /\ Names(reqBuilder') = {idx}
                /\ IdentityOn(reqBuilder') = IdentityOf(input[idx].Message)
           ELSE /\ chan' = << >>
                /\ Names(reqBuilder') = Names(reqBuilder) \cup {idx}
                /\ IdentityOn(reqBuilder') = IdentityOf(input[idx].Message) ]_vars

\* everything transformLogEvents sends for the whole input: the payloads of the
\* transitions, then the last builder's payload
ExpectedOutput == Replay(Len(input)).out \o <<GetLogs(Replay(Len(input)).rb)>>

\* the channel is closed at most once, and only after every payload, the last
\* builder's being the last one, was sent exactly once
ClosedAfterFinalPayload ==
    /\ closeCount <= 1
    /\ (closeCount = 1 => chan = << >> /\ received = ExpectedOutput)
    /\ (tpc = "done" => closeCount = 1)
    /\ (cpc = "done" => closeCount = 1)

\* C5: for every input, the empty one included, transformLogEvents sends the
\* last builder's payload exactly once as the last message and then closes the
\* channel exactly once; with a consumer that keeps receiving, transformLogEvents
\* terminates and the receive loop of handleEvent ends.
C5_FinalPayloadThenClose == []ClosedAfterFinalPayload /\ <>ModeADone

C5_Witness == ModeADone /\ Len(input) > 0 /\ Len(received) >= 2 /\ closeCount = 1

----------------------------------------------------------------------------
\* the log records of a sequence of payloads, in the order of the payloads
RECURSIVE RecordsOf(_)
RecordsOf(payloads) ==
    IF payloads = << >> THEN << >>
    ELSE Head(payloads).records \o RecordsOf(Tail(payloads))

\* the records of the payloads sent so far
Emitted == RecordsOf(received \o chan)

\* the records sent or held by the builder of the loop, and the number of
\* events they stand for
RecordsSoFar == IF tpc = "loop" THEN Emitted \o reqBuilder.records ELSE Emitted
EventsSoFar  == IF tpc = "loop" THEN idx - 1 ELSE Len(input)

\* C25: for every input, the records of the payloads transformLogEvents emits,
\* concatenated in emission order, are exactly one record per input event in
\* input order (none dropped, duplicated or reordered), each with the event's
\* millisecond timestamp multiplied by 1,000,000; while the loop runs the same
\* holds of the events consumed so far, counting the records the builder holds.
C25_OneRecordPerEventInOrder ==
    \A recs \in {RecordsSoFar} :
        /\ Len(recs) = EventsSoFar
        /\ \A i \in 1..Len(recs) :
              /\ recs[i].name = input[i].ID
              /\ recs[i].timestamp = input[i].Timestamp * timestampMultiplier

\* three events sent in more than one payload, all received
C25_Witness ==
    /\ ModeADone
    /\ Len(input) = 3
    /\ Len(received) >= 2
    /\ Len(RecordsOf(received)) = 3
    /\ \E k \in 1..Len(received) : Len(received[k].records) = 2

\* the instance id event.getInstanceId() returns without error for the
\* message, or "" when the message is unclassified or the call fails
ExtractableId(m) ==
    IF parseMessage(m).ok /\ ~getInstanceId(parseMessage(m)).err
    THEN getInstanceId(parseMessage(m)).id
    ELSE EmptyStr

\* the payloads transformLogEvents has sent
SentPayloads == received \o chan

\* the non-empty extractable instance ids of the events whose records the
\* payload holds (a record's name is the ID of its event)
IdsIn(payload) ==
    {ExtractableId(input[payload.records[j].name].Message) :
        j \in 1..Len(payload.records)} \ {EmptyStr}

\* C26: no payload transformLogEvents emits holds records of events with two
\* different non-empty extractable instance ids, and a payload that holds a
\* record of an event with non-empty extractable instance id H has the
\* resource attribute host.id = H.
C26_OneHostPerPayload ==
    \A k \in 1..Len(SentPayloads) :
        \A ids \in {IdsIn(SentPayloads[k])} :
            /\ Cardinality(ids) <= 1
            /\ \A h \in ids : HostIdOf(SentPayloads[k]) = h

\* two payloads of different hosts, one of them holding two events of its host
C26_Witness ==
    /\ ModeADone
    /\ Len(received) >= 2
    /\ \E k, l \in 1..Len(received) :
          /\ Len(received[k].records) = 2
          /\ IdsIn(received[k]) # {}
          /\ IdsIn(received[l]) # {}
          /\ IdsIn(received[l]) # IdsIn(received[k])

\* the first event of the input is classified, its getInstanceId succeeds, and
\* the id differs from the host-id the new builder took from the stream name
FirstEventLeavesStreamHost ==
    /\ Len(input) > 0
    /\ HasHostId(FreshBuilder(logStream))
    /\ parseMessage(input[1].Message).ok
    /\ ~getInstanceId(parseMessage(input[1].Message)).err
    /\ ~MatchHostId(FreshBuilder(logStream), getInstanceId(parseMessage(input[1].Message)).id)

\* C27 as stated: for every non-empty input and every log stream name, every
\* payload transformLogEvents emits holds at least one log record.
C27_NoEmptyPayload ==
    Len(input) > 0 => \A k \in 1..Len(SentPayloads) : Len(SentPayloads[k].records) >= 1

\* C27 amended: for a non-empty input every payload but the first holds at
\* least one log record, and the first is empty exactly when the stream name
\* gave the new builder a host-id and the first event carries another
\* instance id.
C27_OnlyFirstPayloadMayBeEmpty ==
    Len(input) > 0 =>
        \A k \in 1..Len(SentPayloads) :
            (Len(SentPayloads[k].records) = 0) <=> (k = 1 /\ FirstEventLeavesStreamHost)

\* an input that starts with an event of another host than the stream's: the
\* empty payload, then the payload with the records
C27_Witness ==
    /\ ModeADone
    /\ FirstEventLeavesStreamHost
    /\ Len(input) = 2
    /\ Len(received) = 2
    /\ Len(received[1].records) = 0
    /\ Len(received[2].records) = 2

(* Properties of the format cache *)

Refreshed(g)  == lastSet[gop[g].key].ser # gseen[g].ser
AllIdle       == \A g \in Goroutines : gpc[g] = "idle"

\* the step removes the entry of k
Deletes(k) == Has(entries, k) /\ ~Has(entries', k)

AtMostOneDelete == \A s \in DOMAIN delCount : delCount[s] <= 1

Prefixes(q) == {SubSeq(q, 1, n) : n \in 0..Len(q)}
GetPaths == {<<"RLock", "RUnlock">>, <<"RLock", "RUnlock", "Lock", "Unlock">>}
SetPaths == {<<"Lock", "Unlock">>}
PathsOf(op) == IF op = "get" THEN GetPaths ELSE IF op = "set" THEN SetPaths ELSE {<< >>}

HoldsRead(g)  == g \in rwlock.readers
HoldsWrite(g) == g \in rwlock.writer

LockDiscipline ==
    \A g \in Goroutines :
        \* every call follows one of the paths; a returned call has completed one
        /\ \E q \in PathsOf(gop[g].op) : glog[g] \in Prefixes(q)
        /\ (gpc[g] = "idle" => glog[g] \in PathsOf(gop[g].op))
        \* the locks held are the ones acquired and not yet released
        /\ HoldsRead(g)  <=> (Len(glog[g]) = 1 /\ glog[g][1] = "RLock")
        /\ HoldsWrite(g) <=> (Len(glog[g]) \in {1, 3} /\ glog[g][Len(glog[g])] = "Lock")
        \* nobody waits for the write lock while holding a lock
        /\ (gpc[g] \in {"g_lock", "s_lock"} => ~HoldsRead(g) /\ ~HoldsWrite(g))
        /\ (HoldsWrite(g) => rwlock.readers = {} /\ rwlock.writer = {g})

\* some goroutine inside a call can take its next step
NoDeadlock == AllIdle \/ \E g \in Goroutines : ENABLED CallStep(g)

\* C7: on every path of get the read lock is released exactly once and before
\* the write lock is requested, and the write lock, once acquired, is released
\* exactly once (set: one Lock, one Unlock); no goroutine holds the read lock
\* while it waits for the write lock; concurrent get and set calls never
\* deadlock and every call that started returns (no call stays in progress
\* for ever).
C7_LocksReleasedAndCallsReturn == [](LockDiscipline /\ NoDeadlock) /\ <>[]AllIdle

\* a get that took the upgrade path has returned while another call held up by
\* it has returned too
C7_Witness ==
    \E g, h \in Goroutines :
        /\ g # h /\ AllIdle
        /\ glog[g] = <<"RLock", "RUnlock", "Lock", "Unlock">>
        /\ gop[h].op = "set" /\ glog[h] = <<"Lock", "Unlock">>
        /\ lastSet[gop[g].key].ser = 2

\* the lookup step of get by goroutine g
Looks(g) == gpc[g] = "g_rlock" /\ gpc'[g] # "g_rlock"

\* C8: with TTL CacheTTL, a get of k whose lookup runs at time now after the
\* most recent set of k at time t0 returns that set's (format, id, count) as a
\* hit iff now - t0 <= CacheTTL; otherwise it returns a miss, and once it has
\* re-checked under the write lock no expired entry of k is left (the entry is
\* absent unless a later set stored a new one); a get of a key never set is a
\* miss; set replaces the entry of its key, whatever it was, by its arguments
\* stamped with the current time.
C8_HitIffWithinTTL ==
    [][ \A g \in Goroutines :
          LET k == gop[g].key IN
          /\ Looks(g)
             => /\ (gpc'[g] = "g_hit")
                      <=> (lastSet[k] # NoEntry /\ now - lastSet[k].cachedAt <= CacheTTL)
                /\ (gpc'[g] = "g_hit" => gseen'[g] = lastSet[k])
                /\ (lastSet[k] = NoEntry => gpc'[g] = "g_miss")
          /\ (gpc[g] = "g_hit" /\ gpc'[g] = "idle")
             => /\ gseen[g] = lastSet[k]
                /\ gret'[g] = [op |-> "get", hit |-> TRUE,
                               logFormat |-> lastSet[k].logFormat,
                               flowLogId |-> lastSet[k].flowLogId,
                               flowLogsCount |-> lastSet[k].flowLogsCount]
          /\ (gpc[g] \in {"g_miss", "g_unlock"} /\ gpc'[g] = "idle")
             => gret'[g] = MissRet
          /\ (gpc[g] = "g_lock" /\ gpc'[g] = "g_unlock")
             => /\ (Has(entries', k) => now - entries'[k].cachedAt <= CacheTTL)
                /\ (~Refreshed(g) => ~Has(entries', k))
          /\ (gpc[g] = "s_lock" /\ gpc'[g] = "s_unlock")
             => /\ DOMAIN entries' = DOMAIN entries \cup {k}
                /\ entries'[k].logFormat = gop[g].logFormat
                /\ entries'[k].flowLogId = gop[g].flowLogId
                /\ entries'[k].flowLogsCount = gop[g].flowLogsCount
                /\ entries'[k].cachedAt = now
                /\ \A j \in DOMAIN entries \ {k} : entries'[j] = entries[j] ]_vars

\* a get at age exactly CacheTTL returned the stored tuple, and a later get
\* found the entry expired, deleted it and returned a miss
C8_Witness ==
    \E g, h \in Goroutines :
        /\ g # h /\ AllIdle
        /\ gret[g].hit /\ gret[g].logFormat = lastSet[gop[g].key].logFormat
        /\ gret[h] = MissRet /\ glog[h] = <<"RLock", "RUnlock", "Lock", "Unlock">>
        /\ gop[h].key = gop[g].key
        /\ ~Has(entries, gop[g].key)
        /\ now - lastSet[gop[g].key].cachedAt = CacheTTL + 1

----------------------------------------------------------------------------
(* Properties of Mode B *)

\* the envelopes due for a parse result: one if it is valid, none otherwise
EnvelopesFor(r) ==
    IF r.err = NoErr /\ ~r.record.isNil THEN <<createMetrics(r.record.rec)>> ELSE << >>

\* one envelope for each valid record among the first n, in input order
RECURSIVE ExpectedEnvelopes(_)
ExpectedEnvelopes(n) ==
    IF n = 0 THEN << >>
    ELSE ExpectedEnvelopes(n - 1) \o EnvelopesFor(parseFlowLogRecord(vInput[n], vFormat))

SentCount == Cardinality({i \in 1..Len(vTrace) : vTrace[i].sent})

\* C9: a record that fails to parse or to validate is skipped and the run goes
\* on: when the run is over the output channel has carried exactly one envelope
\* for each valid record among those processed, in input order, and none for a
\* failing record; a run stops before the end of the input only for a failed
\* format lookup or an observed cancellation, never for a failing record.
C9_OneEnvelopePerValidRecord ==
    /\ Len(vTrace) = vIdx - 1
    /\ Len(vReceived) + Len(vChan) = SentCount
    /\ (vpc = "done" => vChan = << >> /\ vReceived = ExpectedEnvelopes(vIdx - 1))
    /\ (vExit = "exhausted" => vIdx = Len(vInput) + 1)
    /\ (vpc \in {"return", "done"} /\ vIdx <= Len(vInput)
          => vExit \in {"lookup_failed", "cancelled"})

\* a valid, a failing and a valid record under the default format: two envelopes
C9_Witness ==
    /\ vpc = "done" /\ vExit = "exhausted" /\ vFormat = ""
    /\ vInput = <<LineAccept, LineBadAction, LineReject>>
    /\ Len(vReceived) = 2
    /\ vReceived[1].attributes["interface-id"] = "eni-1"
    /\ vReceived[2].attributes["interface-id"] = "eni-2"

ExitPaths == {"exhausted", "lookup_failed", "cancelled"}

ClosedOnceOnExit ==
    /\ vCloseCount <= 1
    /\ (vpc = "done" <=> vCloseCount = 1)
    /\ (vpc \in {"return", "done"} <=> vExit \in ExitPaths)
    /\ (vpc = "return" => ENABLED CloseOutput)

\* nothing is processed or sent after the cancellation was observed before record n
StoppedAtCancel ==
    vSeenCancel # 0
    => /\ vExit = "cancelled" /\ vIdx = vSeenCancel
       /\ Len(vTrace) = vSeenCancel - 1
       /\ vChan = << >>
       /\ vReceived = ExpectedEnvelopes(vSeenCancel - 1)

\* C10: a record is processed only if the context was not cancelled at its
\* boundary; once the cancellation is observed no further record is processed
\* or sent; and on each exit path (input exhausted, format lookup failed,
\* cancellation observed) the return runs close(output), which runs exactly once.
C10_CancelStopsAndClosesOnce ==
    /\ [](ClosedOnceOnExit /\ StoppedAtCancel)
    /\ [][ (vIdx' # vIdx \/ vTrace' # vTrace \/ Len(vReceived \o vChan)' > Len(vReceived \o vChan))
           => ~vCancelled /\ vSeenCancel = 0 /\ vpc = "loop" ]_vars
    /\ [][ (vpc = "loop" /\ vpc' = "return" /\ vIdx <= Len(vInput)) => vCancelled ]_vars
    /\ ((vpc = "return") ~> (vpc = "done" /\ vCloseCount = 1))

\* the cancellation was observed before the second of three records and the
\* channel was closed after one processed record
C10_Witness ==
    /\ vpc = "done" /\ vExit = "cancelled" /\ vCloseCount = 1
    /\ Len(vInput) = 3 /\ vSeenCancel = 2 /\ Len(vTrace) = 1 /\ Len(vReceived) = 1

----------------------------------------------------------------------------
(* Properties of handleEvent *)

\* handleEvent has returned after the transformer was started
HandleDone == cpc = "done" /\ tpc = "done"

\* the indices of the exports that returned an error
FailedExports == {k \in 1..Len(hOutcomes) : hOutcomes[k] # NilError}

\* the index of the last export that returned an error
LastFailed == CHOOSE k \in FailedExports : \A j \in FailedExports : j <= k

----------------------------------------------------------------------------
(* Properties of the GCP forwarder *)

\* HandleGcsBatch has returned from g.Wait()
GcsWaited == gcsPc = "done" /\ gcsRet \notin {EventError, OpenError, ReadError}

\* the end of the input was reached without error and the flush loop is over
GcsFlushed == gcsPc = "waiting" \/ GcsWaited

ExportIndices == 1..Len(exports)

\* C12 as stated: a failure of one sub-batch export fails only that sub-batch,
\* so no other export, in flight or launched later, is ended by the failure
\* (none returns the cancellation of the group's context), and the invocation
\* returns nil only when every launched export returned nil.
C12_OthersKeepOwnOutcome ==
    /\ \A k \in ExportIndices :
          exports[k].state = "done" => exports[k].result # Canceled
    /\ (GcsWaited /\ gcsRet = NilError)
          => \A k \in ExportIndices : exports[k].result = NilError

\* the lines before index n that decode
DecodedBefore(n) == {i \in 1..(n - 1) : gcsInput[i].json}

\* the exports that carry the record of line i
CarriedBy(i) == {k \in ExportIndices :
                    \E j \in 1..Len(exports[k].records) : exports[k].records[j].line = i}

\* the record of line i waits in the open sub-batch of its service
InOpenBatch(i) ==
    \E j \in 1..Len(batches[getServiceName(gcsInput[i])]) :
        batches[getServiceName(gcsInput[i])][j].line = i

\* the records of request k are decoded lines of the request's service, in
\* input order, at least one and at most BatchCap
WellFormedExport(k) ==
    /\ Len(exports[k].records) \in 1..BatchCap
    /\ \A j \in 1..Len(exports[k].records) :
          /\ exports[k].records[j].line \in DecodedBefore(gcsIdx)
          /\ getServiceName(gcsInput[exports[k].records[j].line]) = exports[k].service
    /\ \A j \in 1..(Len(exports[k].records) - 1) :
          exports[k].records[j].line < exports[k].records[j + 1].line

\* C13: every outbound request carries between one and BatchCap records, all
\* of the request's own service and in input order; no record is in two
\* requests; while the scanner runs no open sub-batch has reached BatchCap
\* records (a sub-batch is sent by the step that fills it, so every request
\* launched by then is full) and every decoded record is either in the open
\* sub-batch of its service or in exactly one request; once the end of the
\* input was reached without error and the flush loop is over, every decoded
\* record is in exactly one request.  BatchCap stands for the 1000 of the code.
C13_EachRecordInOneCappedRequest ==
    /\ \A k \in ExportIndices : WellFormedExport(k)
    /\ \A i \in DecodedBefore(gcsIdx) : Cardinality(CarriedBy(i)) <= 1
    /\ gcsPc = "scanning" =>
          /\ \A svc \in GcsServices : Len(batches[svc]) < BatchCap
          /\ \A k \in ExportIndices : Len(exports[k].records) = BatchCap
          /\ \A i \in DecodedBefore(gcsIdx) : (CarriedBy(i) = {}) = InOpenBatch(i)
    /\ GcsFlushed =>
          \A i \in DecodedBefore(Len(gcsInput) + 1) : Cardinality(CarriedBy(i)) = 1

\* an input where the records of one service fill a sub-batch and leave a
\* partial one: a full and then a partial request of the same service were
\* sent and the invocation returned nil
C13_Witness ==
    /\ GcsWaited /\ gcsRet = NilError
    /\ \E k1, k2 \in ExportIndices :
          /\ k1 < k2 /\ exports[k1].service = exports[k2].service
          /\ Len(exports[k1].records) = BatchCap
          /\ Len(exports[k2].records) < BatchCap

----------------------------------------------------------------------------
\* C29 as stated: on every return path of HandleGcsBatch, the one taken when
\* the line reader reports an error included, the function returns only after
\* every export goroutine it launched has finished.
C29_NoExportInFlightAtReturn ==
    gcsPc = "done" => \A k \in ExportIndices : exports[k].state = "done"

\* the same on the return path through g.Wait() alone
NoExportInFlightAfterWait ==
    GcsWaited => \A k \in ExportIndices : exports[k].state = "done"

(* Properties of the request builder *)

\* the calls of AddLogEntry among the first n operations
AddedBefore(n) == {i \in 1..n : pIn[i].op = "AddLogEntry"}

\* the position in pIn of the k-th call of GetLogs
GetLogsAt(k) ==
    CHOOSE i \in 1..Len(pIn) :
        pIn[i].op = "GetLogs" /\ Cardinality({j \in 1..i : pIn[j].op = "GetLogs"}) = k

\* C14 as stated: every payload GetLogs returns has exactly one resource and
\* exactly one scope holding all the records added so far, also when
\* AddLogEntry was never called.
C14_OneResourceOneScope ==
    \A k \in 1..Len(pDone) :
        /\ pDone[k].nResources = 1
        /\ pDone[k].nScopes = 1
        /\ {pDone[k].records[j].name : j \in 1..Len(pDone[k].records)}
             = AddedBefore(GetLogsAt(k))
        /\ Len(pDone[k].records) = Cardinality(AddedBefore(GetLogsAt(k)))

----------------------------------------------------------------------------
\* the call the step makes, when the step is a call of the builder
LastCall == pIn'[Len(pIn')]
CallMade == Len(pIn') = Len(pIn) + 1

\* the stream name starts with an instance id: detectHostIdRegExp matches it
HasInstancePrefix(s) == DetectHostId(s) # EmptyStr

\* C22 as stated: after any sequence of builder operations, SetLogStream(s)
\* changes the host id of the builder only if s itself has an instance-id
\* prefix (i- or ip-) and no host id is currently set; it never replaces a host
\* id and never sets one for a stream name without such a prefix.
C22_HostIdOnlyFromPrefixedStream ==
    [][(CallMade /\ LastCall.op = "SetLogStream" /\ pOut'.hostId # pOut.hostId)
          => (HasInstancePrefix(LastCall.arg) /\ ~HasHostId(pOut))]_vars

\* the resource attribute each setter writes
SetterAttr ==
    [SetCloudAccount |-> "cloud.account.id", SetLogGroup |-> "aws.log.group.names",
     SetLogStream |-> "aws.log.stream.names"]

\* the calls of the setter among the first n operations
CallsBefore(setter, n) == {i \in 1..n : pIn[i].op = setter}

LastOf(positions) == CHOOSE i \in positions : \A j \in positions : j <= i

\* C23 as stated: SetCloudAccount, SetLogGroup and SetLogStream each upsert
\* their resource attribute: when the same setter was called with a value and
\* later with another, the attribute in the payload built afterwards equals the
\* value of the later call.
C23_SettersUpsert ==
    \A k \in 1..Len(pDone), setter \in DOMAIN SetterAttr :
        \A made \in {CallsBefore(setter, GetLogsAt(k))} :
            Cardinality(made) >= 2 =>
                /\ Has(pDone[k].attrs, SetterAttr[setter])
                /\ pDone[k].attrs[SetterAttr[setter]] = pIn[LastOf(made)].arg

\* the two setters that upsert: the payload carries the value of the last call
AccountAndGroupUpsert ==
    \A k \in 1..Len(pDone), setter \in {"SetCloudAccount", "SetLogGroup"} :
        \A made \in {CallsBefore(setter, GetLogsAt(k))} :
            made # {} =>
                /\ Has(pDone[k].attrs, SetterAttr[setter])
                /\ pDone[k].attrs[SetterAttr[setter]] = pIn[LastOf(made)].arg

(* Properties of the flow-log parsers *)

\* the field names a format lists, in its order
FormatNames(format) == CleanFields(Fields(format))

\* the default fields missing from the sequence of names
OmittedDefaults(names) == DefaultNames \ {names[i] : i \in 1..Len(names)}

\* the first default field, in the default order, missing from the names
FirstOmitted(names) ==
    V2DefaultFieldNames[CHOOSE i \in 1..Len(V2DefaultFieldNames) :
        /\ V2DefaultFieldNames[i] \in OmittedDefaults(names)
        /\ \A j \in 1..(i - 1) : V2DefaultFieldNames[j] \notin OmittedDefaults(names)]

\* the positions of the names that list the field d
PositionsOf(names, d) == {i \in 1..Len(names) : names[i] = d}

\* the value the tokens of a line give the field d under the names of a format
\* of the same length: the token under the last position that lists d, the
\* empty string when no position lists d
ValueOf(tokens, names, d) ==
    IF PositionsOf(names, d) = {} THEN EmptyStr
    ELSE tokens[CHOOSE i \in PositionsOf(names, d) : \A j \in PositionsOf(names, d) : j <= i]

CustomApplied == pDone = "custom"

\* C15 as stated: for a format that omits a default field and for every line,
\* parseFlowLogRecordCustom returns no record and a ValidationError that
\* names an omitted default field.
C15_MissingFieldNamed ==
    CustomApplied =>
        \A names \in {FormatNames(pIn.format)} :
            OmittedDefaults(names) # {}
            => /\ pOut.record.isNil
               /\ pOut.err.kind = "ValidationError"
               /\ pOut.err.field \in OmittedDefaults(names)

\* C15 (amended): for a format that omits a default field and for every line,
\* parseFlowLogRecordCustom returns no record; the error is a ParseError when
\* the line does not have as many fields as the format, otherwise a
\* ValidationError on version when the line's version (empty when the format
\* omits version) parses to less than 2, and otherwise a ValidationError that
\* names the first omitted default field in the default order.
C15_RejectedByFirstFailingCheck ==
    CustomApplied =>
        \A names \in {FormatNames(pIn.format)}, tokens \in {Fields(pIn.message)} :
            OmittedDefaults(names) # {}
            => /\ pOut.record.isNil
               /\ pOut.err =
                    IF Len(tokens) # Len(names) THEN ParseError
                    ELSE IF parseInt64(ValueOf(tokens, names, "version")) < 2
                         THEN ValidationError("version")
                         ELSE ValidationError(FirstOmitted(names))

\* a format without start and end and a consistent line of version 2: the
\* error names start, the first of the two omitted fields
C15_Witness ==
    /\ CustomApplied
    /\ pIn.format = FmtNoStartEnd
    /\ pIn.message = LineFor(FmtNoStartEnd, BaseValues, " ")
    /\ pOut.record.isNil
    /\ pOut.err = ValidationError("start")

\* the values a line gives the default fields under the names of a format,
\* written as a line in the default order
DefaultLayout(tokens, names) ==
    Join([i \in 1..Len(V2DefaultFieldNames) |-> ValueOf(tokens, names, V2DefaultFieldNames[i])],
         " ")

\* the two results agree: both are errors, or both are records with the same
\* values of the default fields
SameOutcome(custom, default) ==
    /\ (custom.err = NoErr) = (default.err = NoErr)
    /\ custom.record.isNil = (custom.err # NoErr)
    /\ default.record.isNil = (default.err # NoErr)
    /\ custom.err = NoErr =>
          \A d \in DefaultNames : custom.record.rec[d] = default.record.rec[d]

\* C16: for a format that lists every default field and a line with as many
\* fields as the format, parseFlowLogRecordCustom succeeds iff
\* parseFlowLogRecordDefault succeeds on the line's default-field values
\* written in the default order, and then both records have the same values
\* of the 14 default fields.
C16_CustomAgreesWithDefault ==
    CustomApplied =>
        \A names \in {FormatNames(pIn.format)}, tokens \in {Fields(pIn.message)} :
            (OmittedDefaults(names) = {} /\ Len(tokens) = Len(names))
            => SameOutcome(pOut, parseFlowLogRecordDefault(DefaultLayout(tokens, names)))

\* a reordered format and a matching line: the custom parser returns the
\* record the default parser returns for the default layout
C16_Witness ==
    /\ CustomApplied
    /\ pIn.format = FmtReordered
    /\ pIn.message = LineFor(FmtReordered, BaseValues, " ")
    /\ pOut.err = NoErr /\ ~pOut.record.isNil
    /\ pOut.record.rec["bytes"] = 840
    /\ parseFlowLogRecordDefault(LineFor(VpcFlowLogsDefaultFormatString, BaseValues, " ")).err
         = NoErr

DefaultApplied == pDone = "default"

\* C17: parseFlowLogRecordDefault returns a ParseError and no record exactly
\* when the line does not have 14 whitespace-separated fields; for a line of
\* 14 fields it returns a ValidationError on version and no record when the
\* first field, read as an integer with 0 for what is not an integer, is
\* below 2; a line of 14 fields whose version is 2 or higher is never
\* rejected by an error that names version.
C17_FieldCountThenVersion ==
    DefaultApplied =>
        \A tokens \in {Fields(pIn.message)} :
            /\ (Len(tokens) # 14) = (pOut.err = ParseError)
            /\ Len(tokens) # 14 => pOut.record.isNil
            /\ Len(tokens) = 14 =>
                  IF ParseInt(tokens[1]).err \/ ParseInt(tokens[1]).val < 2
                  THEN pOut.err = ValidationError("version") /\ pOut.record.isNil
                  ELSE pOut.err # ValidationError("version")

\* a line of 14 fields with version 11, above the versions the tests use, is
\* accepted
C17_Witness ==
    /\ DefaultApplied
    /\ pIn.message = LineFor(VpcFlowLogsDefaultFormatString,
                              [BaseValues EXCEPT !["version"] = "11"], " ")
    /\ pOut.err = NoErr /\ ~pOut.record.isNil
    /\ pOut.record.rec["version"] = "11"

----------------------------------------------------------------------------
(* Properties of validateFlowLogRecord *)

\* the fields of the record that break a rule: an empty string field, a
\* negative number, start and end when start is after end, an account id
\* that is not 12 ASCII digits, an action or a log status outside their values
ViolatedFields(rec) ==
    {t \in {"version", "account-id", "interface-id", "srcaddr", "dstaddr", "srcport",
             "dstport", "protocol", "action", "log-status"} : rec[t] = ""}
    \cup {t \in {"packets", "bytes", "start", "end"} : rec[t] < 0}
    \cup (IF rec["start"] > rec["end"] THEN {"start", "end"} ELSE {})
    \cup (IF Len(rec["account-id"]) = 12
             /\ \A i \in 1..12 : Ch(rec["account-id"], i) \in DigitChars
          THEN {} ELSE {"account-id"})
    \cup (IF rec["action"] \in {"ACCEPT", "REJECT"} THEN {} ELSE {"action"})
    \cup (IF rec["log-status"] \in {"OK", "NODATA", "SKIPDATA"} THEN {} ELSE {"log-status"})

\* C18: with a nil presence map validateFlowLogRecord returns nil exactly for
\* the records that break no rule, and otherwise a ValidationError whose
\* field is one that breaks a rule.
C18_AcceptsIffNoRuleBroken ==
    pDone = "validate" =>
        /\ (pOut = NoErr) = (ViolatedFields(pIn.record) = {})
        /\ pOut # NoErr =>
              /\ pOut.kind = "ValidationError"
              /\ pOut.field \in ViolatedFields(pIn.record)

\* a record with two broken rules, an account id with a letter and an
\* unknown action, is rejected for its account id
C18_Witness ==
    /\ pDone = "validate"
    /\ pIn.record = [BaseRecord EXCEPT !["account-id"] = "12345678901a", !["action"] = "DROP"]
    /\ pOut = ValidationError("account-id")

----------------------------------------------------------------------------
(* Properties of parseMessage *)

\* the structs in the order parseMessage tries them
KindOrder == <<"ec2CloudTrailEvent", "cloudTrailEvent", "cloudInsightsLog",
               "cloudInsightsAppLog", "cloudInsightsPerformance">>

\* the shape predicate of a struct holds of the JSON object m
ShapeMatches(m, kind) ==
    CASE kind = "ec2CloudTrailEvent" ->
            /\ "eventSource" \in m.paths /\ m.eventSource = "ec2.amazonaws.com"
            /\ ("requestParameters.instancesSet" \in m.paths
                \/ "responseElements.instancesSet" \in m.paths)
      [] kind = "cloudTrailEvent" -> "eventVersion" \in m.paths
      [] kind = "cloudInsightsLog" -> "ec2_instance_id" \in m.paths
      [] kind = "cloudInsightsAppLog" ->
            "kubernetes.host" \in m.paths /\ "kubernetes.namespace_name" \in m.paths
      [] kind = "cloudInsightsPerformance" ->
            "InstanceId" \in m.paths /\ "AutoScalingGroupName" \in m.paths

\* the tag of the first position of KindOrder in the set, Unknown for none
FirstOf(positions) ==
    IF positions = {} THEN "Unknown"
    ELSE KindOrder[CHOOSE i \in positions : \A j \in positions : i <= j]

\* the positions whose shape predicate matches
Matching(m) == {i \in 1..Len(KindOrder) : ShapeMatches(m, KindOrder[i])}

\* the positions whose shape predicate matches and whose struct takes the
\* types of the values
MatchingAndDecoding(m) ==
    {i \in Matching(m) : StructPaths(KindOrder[i]) \cap m.mistyped = {}}

ClassifyApplied == pDone = "parseMessage"

\* C19 as stated: every input gets one tag; an input that is not a JSON
\* object is Unknown; a JSON object gets the tag of the first shape predicate
\* that matches, and Unknown only when no predicate matches.
C19_FirstMatchingShape ==
    ClassifyApplied =>
        /\ pOut.ok = (pOut.kind # "Unknown")
        /\ pOut.kind = IF pIn.message.obj THEN FirstOf(Matching(pIn.message)) ELSE "Unknown"

\* C19 (amended): every input gets one tag; an input that is not a JSON
\* object is Unknown; a JSON object gets the tag of the first shape, in the
\* order EC2 audit event, generic audit event, cluster insights log, app log,
\* cluster insights performance, whose predicate matches and into whose struct
\* the message decodes without a type error; it is Unknown when there is no
\* such shape.
C19_FirstMatchingDecodableShape ==
    ClassifyApplied =>
        /\ pOut.ok = (pOut.kind # "Unknown")
        /\ pOut.kind = IF pIn.message.obj THEN FirstOf(MatchingAndDecoding(pIn.message))
                       ELSE "Unknown"

\* an object with eventVersion, a mistyped eventSource and ec2_instance_id:
\* the generic audit shape matches first but does not decode, and the message
\* is tagged as a cluster insights log
C19_Witness ==
    /\ ClassifyApplied
    /\ pIn.message.paths = {"eventSource", "eventVersion", "ec2_instance_id"}
    /\ pIn.message.mistyped = {"eventSource"}
    /\ pOut.ok /\ pOut.kind = "cloudInsightsLog"

----------------------------------------------------------------------------
(* Properties of extractEC2InstanceId *)

\* the instanceId values of the request items followed by the response items
AllItems(m) == m.reqItems \o m.respItems

\* the positions of the non-empty values
NonEmptyAt(items) == {i \in 1..Len(items) : items[i] # EmptyStr}

\* C20 as stated: the extracted id is the first non-empty instanceId of the
\* request items in order followed by the response items in order, and the
\* extraction fails only when all of them are empty.
C20_FirstNonEmptyOfAllItems ==
    pDone = "extractEC2InstanceId" =>
        \A items \in {AllItems(pIn.event)} :
            IF NonEmptyAt(items) = {} THEN pOut.err
            ELSE /\ ~pOut.err
                 /\ pOut.id = items[CHOOSE i \in NonEmptyAt(items) :
                                       \A j \in NonEmptyAt(items) : i <= j]

----------------------------------------------------------------------------
(* Properties of cloudInsightsAppLog *)

AppLogApplied == pDone = "appLog"

\* the submatches of detectInstanceNameAndRegion on kubernetes.host of the input
HostMatches == DetectInstanceNameAndRegion(pIn.message.kubernetes.host)

\* the Fargate group of the match captured the prefix
PrefixCaptures(matches) == matches.matched /\ matches.fargate # EmptyStr

\* C21: for a FargateOrPodAppLog the event type is the Fargate type iff the
\* fargate- prefix of kubernetes.host captures; in that case the instance id is
\* empty, getInstanceId fails, the host-id step neither sets a host id nor
\* emits, and the region is the matched region; when the prefix does not
\* capture, instance id and region are the matched instance and region.
C21_FargateIffPrefixCaptures ==
    AppLogApplied =>
        \A matches \in {HostMatches} :
            /\ pOut.kind = "cloudInsightsAppLog"
            /\ (pOut.eventType = fargateEvent) <=> PrefixCaptures(matches)
            /\ pOut.eventType \in {fargateEvent, ec2Event}
            /\ pOut.region = matches.region
            /\ IF PrefixCaptures(matches)
               THEN /\ pOut.instanceId = [id |-> EmptyStr, err |-> TRUE]
                    /\ pOut.hostStep = [out |-> << >>, rb |-> pIn.rb]
               ELSE pOut.instanceId.id = matches.instance

\* a host with the prefix, an instance name and a region, met by a builder
\* that holds another host id
C21_Witness ==
    /\ AppLogApplied
    /\ PrefixCaptures(HostMatches)
    /\ HostMatches.instance # EmptyStr
    /\ pOut.region = "us-east-2"
    /\ HasHostId(pIn.rb)

----------------------------------------------------------------------------
(* Properties of sanitizeAttributeValue *)

\* the byte positions of s at which a rune starts when s is ranged over
RECURSIVE RuneStarts(_, _)
RuneStarts(s, i) ==
    IF i > Len(s) THEN {} ELSE {i} \cup RuneStarts(s, i + DecodeRune(s, i).width)

\* byte i of s starts the encoding of the rune it decodes to
WellEncoded(s, i) ==
    \A d \in {DecodeRune(s, i)} : SubSeq(s, i, i + d.width - 1) = EncodeRune(d.rune)

\* s is the encoding of printable code points only
OnlyPrintable(s) ==
    \A i \in RuneStarts(s, 1) : WellEncoded(s, i) /\ IsPrint(DecodeRune(s, i).rune)

\* C24 as stated: for every string s and bound N, sanitize(s, N) contains only
\* printable code points, has length at most N, and sanitizing it again with
\* the same bound returns it unchanged.
C24_PrintableBoundedIdempotent ==
    /\ \A k \in 1..(IF pDone \in {"sanitized", "sanitized twice"} THEN Len(pOut) ELSE 0) :
          /\ OnlyPrintable(pOut[k])
          /\ Len(pOut[k]) <= pIn.maxLength
    /\ pDone = "sanitized twice" => pOut[2] = pOut[1]

\* the part that holds for every value: the result is at most maxLength bytes
\* long and, when nothing was cut off, printable and a fixed point
SanitizeBoundedAndStableUncut ==
    /\ \A k \in 1..(IF pDone \in {"sanitized", "sanitized twice"} THEN Len(pOut) ELSE 0) :
          Len(pOut[k]) <= pIn.maxLength
    /\ (pDone = "sanitized twice" /\ Len(SanitizedFrom(pIn.value, 1)) <= pIn.maxLength)
          => (pOut[2] = pOut[1] /\ OnlyPrintable(pOut[1]))


----------------------------------------------------------------------------
(* Properties of getFlowLogFormatCached *)

\* the lookup found a stored tuple no older than the TTL
WithinTTL(seen) == seen.stored.set /\ seen.at - seen.stored.at <= CacheTTL

\* TransformVpcFlowLogs has put no metric on the channel in this invocation
NoMetricEmitted ==
    /\ vChan = << >>
    /\ vReceived = << >>
    /\ \A i \in 1..Len(vTrace) : ~vTrace[i].sent

\* C28: getFlowLogFormatCached calls the provider only when the cache has no
\* entry for the log group or only one older than the TTL; a successful call
\* stores the tuple it returns, and a lookup within the TTL of that store
\* returns the same tuple with no provider call; a failed call stores
\* nothing, returns the error, and the invocation emits no metric.
C28_ProviderOnlyOnMissAndFailureEmitsNothing ==
    /\ lkPc = "miss" => ~WithinTTL(lkSeen) /\ ~Has(entries, VpcLogGroup)
    /\ lkPc = "returned" =>
          /\ lkCalled <=> ~WithinTTL(lkSeen)
          /\ ~lkCalled =>
                /\ ~lkRet.err
                /\ lkRet.tuple = lkSeen.stored.tuple
                /\ lkStored = lkSeen.stored
          /\ lkCalled /\ ~lkRet.err =>
                /\ Has(entries, VpcLogGroup)
                /\ TupleOf(entries[VpcLogGroup]) = lkRet.tuple
                /\ entries[VpcLogGroup].cachedAt = lkStored.at
                /\ lkStored.tuple = lkRet.tuple
          /\ lkCalled /\ lkRet.err =>
                /\ ~Has(entries, VpcLogGroup)
                /\ lkStored = lkSeen.stored
                /\ lkRet.tuple = NoTuple
                /\ NoMetricEmitted
                /\ vpc = "done" => vExit = "lookup_failed"

\* a later invocation was served from the cache, with a custom format, and
\* its metrics were received
C28_Witness ==
    /\ lkRuns >= 2 /\ lkPc = "returned" /\ ~lkCalled
    /\ lkRet.tuple.logFormat = CustomFormat
    /\ vpc = "done" /\ Len(vReceived) >= 1

\* an invocation whose provider call failed after an expired entry was dropped
LookupFailedAfterExpiry ==
    /\ lkPc = "returned" /\ lkCalled /\ lkRet.err
    /\ lkSeen.stored.set /\ vpc = "done"


----------------------------------------------------------------------------
(* Properties of ProcessAndExportVpcFlowLogs *)

IsFailure(e) == e # NilError

\* the errors of the exports that failed, in the order of the exports
FailedOutcomes == SelectSeq(xOutcomes, IsFailure)

\* the number of exports that returned nil
Succeeded == Len(xOutcomes) - Len(FailedOutcomes)

\* the number of envelopes the transformer put on the channel
EnvelopesEmitted == Cardinality({i \in 1..Len(vTrace) : vTrace[i].sent})

\* C30 as stated: the call returns (n, errs) with n the number of exports
\* that succeeded and errs exactly one error per failed export, n plus the
\* failed exports being the envelopes emitted, and errs empty when no export
\* failed.
C30_ErrsAreExactlyTheFailedExports ==
    xPc = "returned" =>
        /\ xCount = Succeeded
        /\ xErrs = FailedOutcomes
        /\ xCount + Len(FailedOutcomes) = EnvelopesEmitted
        /\ FailedOutcomes = << >> => xErrs = << >>

\* C30 as the code has it: n is the number of exports that succeeded, n plus
\* the failed exports is the number of envelopes emitted, and errs holds the
\* errors of the failed exports in order, followed by one more error, saying
\* that nothing was processed, exactly when n is 0.
C30_ErrsAreFailedExportsPlusNoneExported ==
    /\ xPc = "ranging" => xErrs = FailedOutcomes /\ xCount = Succeeded
    /\ xPc = "returned" =>
          /\ xCount = Succeeded
          /\ xCount + Len(FailedOutcomes) = EnvelopesEmitted
          /\ Len(vReceived) = EnvelopesEmitted
          /\ xErrs = FailedOutcomes \o (IF xCount = 0 THEN <<NoneExported>> ELSE << >>)
          /\ xErrs = << >> <=> (FailedOutcomes = << >> /\ xCount >= 1)

\* a call returned after every export failed
C30_Witness ==
    /\ xPc = "returned" /\ xCount = 0
    /\ Len(FailedOutcomes) >= 1
    /\ Len(xErrs) = Len(FailedOutcomes) + 1

\* a call returned after some exports succeeded and some failed
PartialSuccessReturned ==
    /\ xPc = "returned" /\ xCount >= 1 /\ Len(FailedOutcomes) >= 1

\* a call returned without any envelope emitted
NothingEmittedReturned ==
    /\ xPc = "returned" /\ EnvelopesEmitted = 0 /\ xErrs = <<NoneExported>>

====
